---- MODULE Spec2Model ----
(***************************************************************************)
(* Ares: the persistent scrape-job queue (ares-db ScrapeJobRepository), the *)
(* worker loop (ares-core WorkerService) that claims, processes, completes, *)
(* fails and releases jobs, the circuit breaker that guards the pipeline,   *)
(* the scrape pipeline with its extraction store, the per-domain throttle,  *)
(* the retry schedule and the error classification.                         *)
(*                                                                         *)
(* Time is counted in minutes (the unit of the retry schedule).  A row's   *)
(* created_at is its creation sequence number: distinct inserts carry      *)
(* distinct, increasing timestamps.  The bookkeeping column updated_at,    *)
(* which every statement sets to NOW() and no statement reads, and the     *)
(* immutable configuration columns (url, schema, model, base_url) are not  *)
(* carried.                                                                *)
(***************************************************************************)
EXTENDS Integers, Sequences, FiniteSets, TLC

\* ---------------------------------------------------------------- bounds
NumWorkers == 2         \* worker processes polling the same table
MaxJobs == 2            \* rows create_job may insert
MaxTime == 1            \* last minute the clock reaches
MaxRetriesInput == 1    \* largest max_retries a create_job request carries
MaxDelayMinutes == 2    \* RetryConfig.max_delay of the workers, in minutes
MaxExtractionId == 1    \* extraction ids a successful scrape may return
MaxAdminCalls == 2      \* cancel_job / release_job / release_worker_jobs calls from outside the workers
MaxDbErrors == 1        \* queue calls that return Err(DatabaseError)
NumCallers == 2         \* tasks calling CircuitBreaker::call on one breaker
MaxInstant == 4         \* last instant the breaker's clock reaches
MaxThreshold == 2       \* largest failure_threshold / success_threshold configured
MaxBaseTimeout == 2     \* largest recovery_timeout configured
MaxCapTimeout == 3      \* the max_recovery_timeout configured
NumScrapers == 2        \* tasks running ScrapeService::scrape against one store
NumKeys == 2            \* distinct (url, schema_name) pairs scraped
NumData == 2            \* distinct values the extractor may return
MaxExtractions == 3     \* rows the extractions table may hold
NumTasks == 2           \* tasks calling fetch on clones of one ThrottledFetcher
NumDomains == 2         \* distinct domain keys fetched
ThrottleDelay == 2      \* ThrottleConfig.delay of the fetcher
MaxJitter == 2          \* the ThrottleConfig.jitter configured, when there is one
MaxFetches == 3         \* fetch calls made on the fetcher
MaxClock == 4           \* last instant the fetcher's clock reaches
MaxPolls == 2           \* claim_job calls one run of the worker makes
MaxAttempt == 6         \* largest attempt number a retry delay is asked for

\* --------------------------------------------------------------- constants
RateLimitBackoffMultiplier == 2     \* rate_limit_backoff_multiplier: 2.0

\* ------------------------------------------------------------ vocabulary
NULL == -1              \* Option::None / SQL NULL for ids and timestamps
NoMessage == "NULL"     \* SQL NULL for error_message

Workers == 1..NumWorkers
Times == 0..MaxTime
ExtractionIds == {NULL} \cup (1..MaxExtractionId)

Pending == "pending"
Running == "running"
Completed == "completed"
Failed == "failed"
Cancelled == "cancelled"

is_terminal(status) == status \in {Completed, Failed, Cancelled}

VARIABLES
    jobs,       \* the scrape_jobs table: a sequence of rows, index = id
    now,        \* NOW() / Utc::now(), in minutes
    pc,         \* pc[w]: where worker w is in WorkerService::run
    job,        \* job[w]: the snapshot claim_job returned to worker w
    locked,     \* locked[w]: the row worker w's in-flight claim holds FOR UPDATE
    admin_calls, \* queue calls made so far from outside the workers (CLI, REST, sweeper)
    db_errors,  \* queue calls that have failed so far with a DatabaseError
    config,     \* CircuitBreaker.config
    inner,      \* CircuitBreaker.inner: the CircuitBreakerInner behind the mutex
    instant,    \* Instant::now(), in units of the shortest recovery timeout
    call_pc,    \* call_pc[c]: where caller c is in CircuitBreaker::call
    call_ret,   \* what the call that returned last returned to its caller
    recorded,   \* history: results recorded since the last success / since half-open began
    store_attached, \* ScrapeService.store is Some(store)
    extractions, \* the extractions table: a sequence of rows in created_at order, index = id
    scrape_pc,  \* scrape_pc[s]: the step scraper s's run of scrape() is at
    scrape,     \* scrape[s]: the locals of scraper s's run, its step log and its result
    throttle_config, \* ThrottledFetcher.config
    last_request, \* ThrottledFetcher.last_request: domain key -> Instant, NULL if absent
    fetch_pc,   \* fetch_pc[t]: where task t is in ThrottledFetcher::fetch
    fetching,   \* fetching[t]: the domain task t is fetching and the end of its sleep
    reached,    \* history: the requests handed to the inner fetcher, with their instants
    clock,      \* Instant::now() for the fetcher, in units of half the delay
    run_pc,     \* where the worker process is in WorkerService::run / process_job
    run_id,     \* WorkerConfig.worker_id of the worker process
    cancelled,  \* the CancellationToken has been cancelled
    events,     \* history: the events reported to the WorkerReporter by this run
    current,    \* the job snapshot process_job is working on
    scraped,    \* the result circuit_breaker.call returned to process_job
    scrapes,    \* history: times the breaker invoked the scrape operation for this run
    release_calls, \* history: release_worker_jobs calls made by this run
    finish_calls, \* history: the complete_job / fail_job calls process_job issued in this run
    cancelled_during, \* history: the job process_job was working on when the token was cancelled
    retry_config, \* WorkerConfig.retry_config: the RetryConfig, max_delay in minutes
    retry_ret,  \* the arguments and the result of the retry-schedule call that returned last
    app_error,  \* an AppError value at hand
    classified  \* what is_retryable() and should_trip_circuit() returned for it, <<>> if not asked

workerVars == <<pc, job, locked>>
envVars == <<admin_calls, db_errors>>
queueVars == <<jobs, now, pc, job, locked, admin_calls, db_errors>>
breakerVars == <<config, inner, instant, call_pc, call_ret, recorded>>
scrapeVars == <<store_attached, extractions, scrape_pc, scrape>>
throttleVars == <<throttle_config, last_request, fetch_pc, fetching, reached, clock>>
runVars == <<run_pc, run_id, cancelled, events, current, scraped, scrapes, release_calls,
            finish_calls, cancelled_during>>
retryVars == <<retry_config, retry_ret>>
errorVars == <<app_error, classified>>
outsideQueue == <<breakerVars, scrapeVars, throttleVars, runVars, retryVars, errorVars>>
outsideBreaker == <<queueVars, scrapeVars, throttleVars, runVars, retryVars, errorVars>>
outsideScrape == <<queueVars, breakerVars, throttleVars, runVars, retryVars, errorVars>>
outsideThrottle == <<queueVars, breakerVars, scrapeVars, runVars, retryVars, errorVars>>
outsideRetry == <<queueVars, breakerVars, scrapeVars, throttleVars, runVars, errorVars>>
outsideError == <<queueVars, breakerVars, scrapeVars, throttleVars, runVars, retryVars>>
vars == <<jobs, now, pc, job, locked, admin_calls, db_errors,
          config, inner, instant, call_pc, call_ret, recorded,
          store_attached, extractions, scrape_pc, scrape,
          throttle_config, last_request, fetch_pc, fetching, reached, clock,
          run_pc, run_id, cancelled, events, current, scraped, scrapes, release_calls,
          finish_calls, cancelled_during,
          retry_config, retry_ret, app_error, classified>>

JobIds == DOMAIN jobs

NoJob == [id |-> NULL, retry_count |-> 0, max_retries |-> 0]

\* ------------------------------------------------------- retry schedule
Min(a, b) == IF a <= b THEN a ELSE b

\* RetryConfig::default()
RetryConfig_default == [max_retries |-> 3, max_delay |-> 60]

\* the schedule without the cap of max_delay
delay_for_attempt_uncapped(attempt) ==
    CASE attempt \in {0, 1} -> 1
      [] attempt = 2 -> 5
      [] attempt = 3 -> 30
      [] OTHER -> 60

\* RetryConfig::delay_for_attempt(&self, attempt), in minutes
delay_for_attempt(attempt) ==
    LET delay == CASE attempt \in {0, 1} -> 1
                   [] attempt = 2 -> 5
                   [] attempt = 3 -> 30
                   [] OTHER -> 60
    IN Min(delay, retry_config.max_delay)

\* can_retry without the max_retries limit
can_retry_ignoring_max(j) == TRUE

\* ScrapeJob::can_retry
can_retry(j) == j.retry_count < j.max_retries

calculate_next_retry(j) == now + delay_for_attempt(j.retry_count + 1)

\* ---------------------------------------------------- rows and statements
new_row(id, max_retries) ==
    [id |-> id, status |-> Pending, created_at |-> id,
     started_at |-> NULL, completed_at |-> NULL, retry_count |-> 0,
     max_retries |-> max_retries, next_retry_at |-> NULL,
     error_message |-> NoMessage, extraction_id |-> NULL, worker_id |-> NULL]

\* SET clause of claim_job
claim_row(r, worker_id) ==
    [r EXCEPT !.status = Running, !.worker_id = worker_id,
              !.started_at = now]

\* complete_job leaving the last failure's error_message on the row
complete_row_keeps_error_message(r, extraction_id) ==
    [r EXCEPT !.status = Completed, !.completed_at = now,
              !.extraction_id = extraction_id, !.worker_id = NULL]

\* complete_job leaving worker_id as the claim set it
complete_row_keeps_worker_id(r, extraction_id) ==
    [r EXCEPT !.status = Completed, !.completed_at = now,
              !.extraction_id = extraction_id, !.error_message = NoMessage]

\* UPDATE of complete_job: WHERE id = $1
complete_row(r, extraction_id) ==
    [r EXCEPT !.status = Completed, !.completed_at = now,
              !.extraction_id = extraction_id, !.error_message = NoMessage,
              !.worker_id = NULL]

\* fail_job that schedules a retry without counting it
fail_row_never_counts(r, error, next_retry_at) ==
    [r EXCEPT !.status = IF next_retry_at # NULL THEN Pending ELSE Failed,
              !.next_retry_at = next_retry_at,
              !.error_message = error,
              !.worker_id = NULL,
              !.started_at = IF next_retry_at # NULL THEN NULL ELSE @]

\* fail_job counting an attempt also when no retry is scheduled
fail_row_always_counts(r, error, next_retry_at) ==
    [r EXCEPT !.status = IF next_retry_at # NULL THEN Pending ELSE Failed,
              !.retry_count = @ + 1,
              !.next_retry_at = next_retry_at,
              !.error_message = error,
              !.worker_id = NULL,
              !.started_at = IF next_retry_at # NULL THEN NULL ELSE @]

\* fail_job leaving started_at in place when it schedules a retry
fail_row_keeps_started_at(r, error, next_retry_at) ==
    [r EXCEPT !.status = IF next_retry_at # NULL THEN Pending ELSE Failed,
              !.retry_count = IF next_retry_at # NULL THEN @ + 1 ELSE @,
              !.next_retry_at = next_retry_at,
              !.error_message = error,
              !.worker_id = NULL]

\* UPDATE of fail_job: WHERE id = $1
fail_row(r, error, next_retry_at) ==
    [r EXCEPT !.status = IF next_retry_at # NULL THEN Pending ELSE Failed,
              !.retry_count = IF next_retry_at # NULL THEN @ + 1 ELSE @,
              !.next_retry_at = next_retry_at,
              !.error_message = error,
              !.worker_id = NULL,
              !.started_at = IF next_retry_at # NULL THEN NULL ELSE @]

\* cancel_job without the status condition of its WHERE clause
cancel_row_unguarded(r) ==
    [r EXCEPT !.status = Cancelled, !.worker_id = NULL]

\* UPDATE of cancel_job: WHERE id = $1 AND status NOT IN ('completed', 'cancelled')
cancel_row(r) ==
    IF r.status \notin {Completed, Cancelled}
    THEN [r EXCEPT !.status = Cancelled, !.worker_id = NULL]
    ELSE r

\* UPDATE of release_job: WHERE id = $1 AND status = 'running'
release_row(r) ==
    IF r.status = Running
    THEN [r EXCEPT !.status = Pending, !.worker_id = NULL,
                   !.started_at = NULL]
    ELSE r

\* release_worker_jobs without the worker_id condition of its WHERE clause
release_worker_row_any_worker(r, worker_id) ==
    IF r.status = Running
    THEN [r EXCEPT !.status = Pending, !.worker_id = NULL,
                   !.started_at = NULL]
    ELSE r

\* UPDATE of release_worker_jobs: WHERE worker_id = $1 AND status = 'running'
release_worker_row(r, worker_id) ==
    IF r.worker_id = worker_id /\ r.status = Running
    THEN [r EXCEPT !.status = Pending, !.worker_id = NULL,
                   !.started_at = NULL]
    ELSE r

\* rows_affected() of release_worker_jobs
released_count(worker_id) ==
    Cardinality({id \in JobIds :
        jobs[id].worker_id = worker_id /\ jobs[id].status = Running})

\* The row is locked FOR UPDATE by a claim that has selected it and not yet
\* written it.
RowLocked(id) == \E w \in Workers : locked[w] = id

\* the inner SELECT without its next_retry_at condition
EligibleIgnoringRetryTime(id) == jobs[id].status = Pending

\* WHERE clause of the claim's inner SELECT
Eligible(id) ==
    /\ jobs[id].status = Pending
    /\ (jobs[id].next_retry_at = NULL \/ jobs[id].next_retry_at <= now)

\* ORDER BY created_at ASC alone
BeforeByCreationOnly(a, b) == a.created_at < b.created_at

\* ORDER BY next_retry_at NULLS FIRST, created_at ASC
Before(a, b) ==
    \/ a.next_retry_at = NULL /\ b.next_retry_at # NULL
    \/ /\ a.next_retry_at # NULL /\ b.next_retry_at # NULL
       /\ a.next_retry_at < b.next_retry_at
    \/ /\ a.next_retry_at = b.next_retry_at
       /\ a.created_at < b.created_at

\* the inner SELECT without SKIP LOCKED
SelectableNoSkipLocked(id) == Eligible(id)

\* FOR UPDATE SKIP LOCKED: rows another claim holds are passed over
Selectable(id) == Eligible(id) /\ ~RowLocked(id)

\* LIMIT 1 of the ordered, unlocked, eligible rows ({} when there is none)
SelectForClaim ==
    {id \in JobIds :
        /\ Selectable(id)
        /\ \A other \in JobIds :
              Selectable(other) /\ other # id => Before(jobs[id], jobs[other])}

\* -------------------------------------------------------- queue operations
\* INSERT INTO scrape_jobs (..., max_retries) VALUES (...) RETURNING *
create_job(max_retries) ==
    /\ Len(jobs) < MaxJobs
    /\ jobs' = Append(jobs, new_row(Len(jobs) + 1, max_retries))
    /\ UNCHANGED <<now, workerVars, envVars>>
    /\ UNCHANGED outsideQueue

\* A statement that has to write a row a claim holds FOR UPDATE waits for that
\* claim to commit; it is enabled once the row is unlocked.
cancel_job(id) ==
    /\ admin_calls < MaxAdminCalls
    /\ ~RowLocked(id)
    /\ jobs' = [jobs EXCEPT ![id] = cancel_row(@)]
    /\ admin_calls' = admin_calls + 1
    /\ UNCHANGED <<now, workerVars, db_errors>>
    /\ UNCHANGED outsideQueue

release_job(id) ==
    /\ admin_calls < MaxAdminCalls
    /\ jobs' = [jobs EXCEPT ![id] = release_row(@)]
    /\ admin_calls' = admin_calls + 1
    /\ UNCHANGED <<now, workerVars, db_errors>>
    /\ UNCHANGED outsideQueue

release_worker_jobs(worker_id) ==
    /\ admin_calls < MaxAdminCalls
    /\ jobs' = [id \in JobIds |-> release_worker_row(jobs[id], worker_id)]
    /\ admin_calls' = admin_calls + 1
    /\ UNCHANGED <<now, workerVars, db_errors>>
    /\ UNCHANGED outsideQueue

\* ------------------------------------------------------------ worker loop
\* claim_job, first half: the inner SELECT ... FOR UPDATE SKIP LOCKED LIMIT 1.
\* With no row selected the statement updates nothing and returns None, and
\* the worker sleeps for poll_interval.
claim_job_select(w) ==
    /\ pc[w] = "loop"
    /\ IF SelectForClaim = {}
       THEN /\ pc' = [pc EXCEPT ![w] = "sleep"]
            /\ UNCHANGED locked
       ELSE /\ \E id \in SelectForClaim : locked' = [locked EXCEPT ![w] = id]
            /\ pc' = [pc EXCEPT ![w] = "claiming"]
    /\ UNCHANGED <<jobs, now, job, envVars>>
    /\ UNCHANGED outsideQueue

\* claim_job, second half: UPDATE ... WHERE id = (selected) RETURNING *
claim_job_update(w) ==
    /\ pc[w] = "claiming"
    /\ LET id == locked[w]
           row == claim_row(jobs[id], w)
       IN /\ jobs' = [jobs EXCEPT ![id] = row]
          /\ job' = [job EXCEPT ![w] = [id |-> id, retry_count |-> row.retry_count,
                                        max_retries |-> row.max_retries]]
    /\ locked' = [locked EXCEPT ![w] = NULL]
    /\ pc' = [pc EXCEPT ![w] = "process"]
    /\ UNCHANGED <<now, envVars>>
    /\ UNCHANGED outsideQueue

\* claim_job returns Err(DatabaseError): nothing is written, the worker sleeps
claim_job_error(w) ==
    /\ pc[w] = "loop"
    /\ db_errors < MaxDbErrors
    /\ db_errors' = db_errors + 1
    /\ pc' = [pc EXCEPT ![w] = "sleep"]
    /\ UNCHANGED <<jobs, now, job, locked, admin_calls>>
    /\ UNCHANGED outsideQueue

\* tokio::time::sleep(poll_interval) elapses: back to the top of the loop
Sleep(w) ==
    /\ pc[w] = "sleep"
    /\ pc' = [pc EXCEPT ![w] = "loop"]
    /\ UNCHANGED <<jobs, now, job, locked, envVars>>
    /\ UNCHANGED outsideQueue

\* What the extractor factory and the breaker-wrapped pipeline hand process_job
Outcomes == {"ok", "factory_error", "circuit_open", "retryable_error", "permanent_error"}

\* is_retryable of the match on circuit_err: Open is retryable, Inner(e) as e says
is_retryable(outcome) == outcome \in {"circuit_open", "retryable_error"}

\* error_msg: the breaker's rejection text, or e.to_string()
error_msg(outcome) == IF outcome = "circuit_open" THEN "circuit open" ELSE "error"

\* process_job: the table after the write the worker issues for its snapshot j
process_job_write(j, outcome, extraction_id) ==
    LET will_retry == can_retry(j) /\ is_retryable(outcome)
        next_retry == IF will_retry THEN calculate_next_retry(j) ELSE NULL
    IN CASE outcome = "ok" ->
              [jobs EXCEPT ![j.id] = complete_row(@, extraction_id)]
         [] outcome = "factory_error" ->
              [jobs EXCEPT ![j.id] = fail_row(@, error_msg(outcome), NULL)]
         [] OTHER ->
              [jobs EXCEPT ![j.id] = fail_row(@, error_msg(outcome), next_retry)]

\* process_job(&job): pipeline result, then complete_job or fail_job; a queue
\* error (db_ok = FALSE) is logged and the row is left as it is.
process_job(w, outcome, extraction_id, db_ok) ==
    /\ pc[w] = "process"
    /\ IF db_ok
       THEN /\ ~RowLocked(job[w].id)
            /\ jobs' = process_job_write(job[w], outcome, extraction_id)
            /\ UNCHANGED db_errors
       ELSE /\ db_errors < MaxDbErrors
            /\ db_errors' = db_errors + 1
            /\ UNCHANGED jobs
    /\ job' = [job EXCEPT ![w] = NoJob]
    /\ pc' = [pc EXCEPT ![w] = "loop"]
    /\ UNCHANGED <<now, locked, admin_calls>>
    /\ UNCHANGED outsideQueue

\* The cancellation token is observed at the top of the loop or in the sleep:
\* break, then release_worker_jobs(worker_id).unwrap_or(0), ShuttingDown, Stopped
Shutdown(w, db_ok) ==
    /\ pc[w] \in {"loop", "sleep"}
    /\ IF db_ok
       THEN /\ jobs' = [id \in JobIds |-> release_worker_row(jobs[id], w)]
            /\ UNCHANGED db_errors
       ELSE /\ db_errors < MaxDbErrors
            /\ db_errors' = db_errors + 1
            /\ UNCHANGED jobs
    /\ pc' = [pc EXCEPT ![w] = "stopped"]
    /\ UNCHANGED <<now, job, locked, admin_calls>>
    /\ UNCHANGED outsideQueue

\* a minute passes
Tick ==
    /\ now < MaxTime
    /\ now' = now + 1
    /\ UNCHANGED <<jobs, workerVars, envVars>>
    /\ UNCHANGED outsideQueue

\* time passes for as long as it takes: a minute goes by while the clock is
\* short of MaxTime or a pending job waits for a next_retry_at still to come
Elapse ==
    /\ \/ now < MaxTime
       \/ \E id \in JobIds : jobs[id].status = Pending /\ jobs[id].next_retry_at > now
    /\ now' = now + 1
    /\ UNCHANGED <<jobs, workerVars, envVars>>
    /\ UNCHANGED outsideQueue

\* ---------------------------------------------------------- circuit breaker
\* CircuitBreaker (ares-core circuit_breaker.rs): one breaker shared by
\* NumCallers concurrent callers of call(), next to direct uses of its public
\* record_success / record_failure / reset / state / stats.  Durations and
\* instants are whole multiples of one time unit.
Callers == 1..NumCallers

Closed == "closed"
Open == "open"
HalfOpen == "half-open"

\* the AppError values the protected operation is given to fail with
RateLimitExceeded == [kind |-> "RateLimitExceeded", status_code |-> 0, retryable |-> FALSE]
NetworkError == [kind |-> "NetworkError", status_code |-> 0, retryable |-> FALSE]
LlmError(status_code, retryable) ==
    [kind |-> "LlmError", status_code |-> status_code, retryable |-> retryable]
SchemaValidationError ==
    [kind |-> "SchemaValidationError", status_code |-> 0, retryable |-> FALSE]

Timeout == [kind |-> "Timeout", status_code |-> 0, retryable |-> FALSE]
CleanerError == [kind |-> "CleanerError", status_code |-> 0, retryable |-> FALSE]
SerializationError == [kind |-> "SerializationError", status_code |-> 0, retryable |-> FALSE]
DatabaseError == [kind |-> "DatabaseError", status_code |-> 0, retryable |-> FALSE]
Generic == [kind |-> "Generic", status_code |-> 0, retryable |-> FALSE]

\* HttpError(String): the one kind whose message text the classification
\* reads; the text is a sequence of characters
HttpError(message) ==
    [kind |-> "HttpError", status_code |-> 0, retryable |-> FALSE, message |-> message]

\* str::contains(pat)
contains(message, pat) ==
    \E i \in 1..(Len(message) - Len(pat) + 1) :
       SubSeq(message, i, i + Len(pat) - 1) = pat

\* the texts the classification looks for
text_timeout == <<"t", "i", "m", "e", "o", "u", "t">>
text_connect == <<"c", "o", "n", "n", "e", "c", "t">>
text_connection == <<"c", "o", "n", "n", "e", "c", "t", "i", "o", "n">>
text_reset == <<"r", "e", "s", "e", "t">>

OperationErrors ==
    {RateLimitExceeded, NetworkError, LlmError(429, FALSE), LlmError(400, FALSE),
     SchemaValidationError}

\* AppError::should_trip_circuit
should_trip_circuit(e) ==
    CASE e.kind \in {"NetworkError", "Timeout", "RateLimitExceeded"} -> TRUE
      [] e.kind = "LlmError" ->
            e.status_code = 429 \/ e.status_code >= 500 \/ e.retryable
      [] e.kind = "HttpError" ->
            \/ contains(e.message, text_timeout)
            \/ contains(e.message, text_connect)
            \/ contains(e.message, text_connection)
      [] OTHER -> FALSE

\* is_rate_limit of record_failure
is_rate_limit(e) ==
    \/ e.kind = "RateLimitExceeded"
    \/ e.kind = "LlmError" /\ e.status_code = 429

\* error.to_string()
to_string(e) ==
    CASE e.kind = "RateLimitExceeded" -> "Rate limit exceeded"
      [] e.kind = "NetworkError" -> "Network error"
      [] e.kind = "LlmError" /\ e.status_code = 429 -> "LLM error (HTTP 429)"
      [] e.kind = "LlmError" -> "LLM error"
      [] OTHER -> "Schema validation error"

TrippingErrors == {e \in OperationErrors : should_trip_circuit(e)}

\* CircuitBreakerConfig::default(), in seconds
DefaultConfig ==
    [failure_threshold |-> 5, success_threshold |-> 2, recovery_timeout |-> 30,
     rate_limit_backoff_multiplier |-> RateLimitBackoffMultiplier,
     max_recovery_timeout |-> 300]

\* the configurations a breaker is built with
Configs ==
    [failure_threshold : 1..MaxThreshold,
     success_threshold : 1..MaxThreshold,
     recovery_timeout : 1..MaxBaseTimeout,
     rate_limit_backoff_multiplier : {RateLimitBackoffMultiplier},
     max_recovery_timeout : {MaxCapTimeout}]

\* CircuitBreakerInner::new(&config)
CircuitBreakerInner_new(cfg) ==
    [state |-> Closed, failure_count |-> 0, success_count |-> 0,
     last_failure_time |-> NULL, last_error_message |-> NoMessage,
     current_recovery_timeout |-> cfg.recovery_timeout]

\* t.elapsed()
elapsed(t) == instant - t

\* the lazy transition without the dwell condition
maybe_transition_ignoring_dwell(i) ==
    IF i.state = Open /\ i.last_failure_time # NULL
    THEN [i EXCEPT !.state = HalfOpen, !.success_count = 0]
    ELSE i

\* fn maybe_transition_to_half_open(&self, inner)
maybe_transition_to_half_open(i) ==
    IF /\ i.state = Open
       /\ i.last_failure_time # NULL
       /\ elapsed(i.last_failure_time) >= i.current_recovery_timeout
    THEN [i EXCEPT !.state = HalfOpen, !.success_count = 0]
    ELSE i

\* the extended timeout without the cap
extended_recovery_timeout_uncapped(i) ==
    i.current_recovery_timeout * config.rate_limit_backoff_multiplier

\* min(current_recovery_timeout * rate_limit_backoff_multiplier, max_recovery_timeout)
extended_recovery_timeout(i) ==
    Min(i.current_recovery_timeout * config.rate_limit_backoff_multiplier,
        config.max_recovery_timeout)

\* record_success that closes the breaker with the extended recovery timeout
record_success_keeps_timeout(i) ==
    CASE i.state = HalfOpen ->
            IF i.success_count + 1 >= config.success_threshold
            THEN [i EXCEPT !.state = Closed, !.failure_count = 0,
                           !.success_count = 0,
                           !.last_error_message = NoMessage]
            ELSE [i EXCEPT !.success_count = @ + 1]
      [] i.state = Closed -> [i EXCEPT !.failure_count = 0]
      [] OTHER -> i

\* record_success that leaves failure_count alone in closed
record_success_keeps_failures(i) ==
    CASE i.state = HalfOpen ->
            IF i.success_count + 1 >= config.success_threshold
            THEN [i EXCEPT !.state = Closed, !.failure_count = 0,
                           !.success_count = 0,
                           !.last_error_message = NoMessage,
                           !.current_recovery_timeout = config.recovery_timeout]
            ELSE [i EXCEPT !.success_count = @ + 1]
      [] OTHER -> i

\* record_success that closes an open breaker
record_success_closes_open(i) ==
    CASE i.state = HalfOpen ->
            IF i.success_count + 1 >= config.success_threshold
            THEN [i EXCEPT !.state = Closed, !.failure_count = 0,
                           !.success_count = 0,
                           !.last_error_message = NoMessage,
                           !.current_recovery_timeout = config.recovery_timeout]
            ELSE [i EXCEPT !.success_count = @ + 1]
      [] i.state = Closed -> [i EXCEPT !.failure_count = 0]
      [] OTHER -> [i EXCEPT !.state = Closed, !.failure_count = 0]

\* pub fn record_success(&self)
record_success(i) ==
    CASE i.state = HalfOpen ->
            IF i.success_count + 1 >= config.success_threshold
            THEN [i EXCEPT !.state = Closed, !.failure_count = 0,
                           !.success_count = 0,
                           !.last_error_message = NoMessage,
                           !.current_recovery_timeout = config.recovery_timeout]
            ELSE [i EXCEPT !.success_count = @ + 1]
      [] i.state = Closed -> [i EXCEPT !.failure_count = 0]
      [] OTHER -> i

\* record_failure where a failure recorded in open restarts the dwell
record_failure_restarts_dwell(i, e) ==
    CASE i.state = Closed ->
            LET counted == [i EXCEPT !.failure_count = @ + 1,
                                     !.last_failure_time = instant,
                                     !.last_error_message = to_string(e)]
            IN IF counted.failure_count >= config.failure_threshold
               THEN [counted EXCEPT
                        !.state = Open,
                        !.current_recovery_timeout =
                            IF is_rate_limit(e)
                            THEN extended_recovery_timeout(counted) ELSE @]
               ELSE counted
      [] i.state = HalfOpen ->
            [i EXCEPT !.state = Open,
                      !.last_failure_time = instant,
                      !.last_error_message = to_string(e),
                      !.success_count = 0,
                      !.current_recovery_timeout =
                          IF is_rate_limit(e)
                          THEN extended_recovery_timeout(i) ELSE @]
      [] OTHER -> [i EXCEPT !.last_failure_time = instant,
                            !.last_error_message = to_string(e)]

\* record_failure that leaves the probe successes counted when a probe fails
record_failure_keeps_successes(i, e) ==
    CASE i.state = Closed ->
            LET counted == [i EXCEPT !.failure_count = @ + 1,
                                     !.last_failure_time = instant,
                                     !.last_error_message = to_string(e)]
            IN IF counted.failure_count >= config.failure_threshold
               THEN [counted EXCEPT
                        !.state = Open,
                        !.current_recovery_timeout =
                            IF is_rate_limit(e)
                            THEN extended_recovery_timeout(counted) ELSE @]
               ELSE counted
      [] i.state = HalfOpen ->
            [i EXCEPT !.state = Open,
                      !.last_failure_time = instant,
                      !.last_error_message = to_string(e),
                      !.current_recovery_timeout =
                          IF is_rate_limit(e)
                          THEN extended_recovery_timeout(i) ELSE @]
      [] OTHER -> [i EXCEPT !.last_error_message = to_string(e)]

\* pub fn record_failure(&self, error)
record_failure(i, e) ==
    CASE i.state = Closed ->
            LET counted == [i EXCEPT !.failure_count = @ + 1,
                                     !.last_failure_time = instant,
                                     !.last_error_message = to_string(e)]
            IN IF counted.failure_count >= config.failure_threshold
               THEN [counted EXCEPT
                        !.state = Open,
                        !.current_recovery_timeout =
                            IF is_rate_limit(e)
                            THEN extended_recovery_timeout(counted) ELSE @]
               ELSE counted
      [] i.state = HalfOpen ->
            [i EXCEPT !.state = Open,
                      !.last_failure_time = instant,
                      !.last_error_message = to_string(e),
                      !.success_count = 0,
                      !.current_recovery_timeout =
                          IF is_rate_limit(e)
                          THEN extended_recovery_timeout(i) ELSE @]
      [] OTHER -> [i EXCEPT !.last_error_message = to_string(e)]

\* pub fn reset(&self)
reset(i) ==
    [i EXCEPT !.state = Closed, !.failure_count = 0, !.success_count = 0,
              !.last_failure_time = NULL, !.last_error_message = NoMessage,
              !.current_recovery_timeout = config.recovery_timeout]

\* retry_after of CircuitBreakerError::Open, as call computes it
retry_after(i) ==
    IF i.last_failure_time # NULL
    THEN IF elapsed(i.last_failure_time) < i.current_recovery_timeout
         THEN i.current_recovery_timeout - elapsed(i.last_failure_time)
         ELSE 0
    ELSE i.current_recovery_timeout

\* what the protected operation returns: Ok(_) or Err(e)
NoError == [kind |-> "none", status_code |-> 0, retryable |-> FALSE]
OkResult == [kind |-> "Ok", status_code |-> 0, retryable |-> FALSE]
OperationResults == {OkResult} \cup OperationErrors

\* what call returns: Err(Open { retry_after }), Ok(_) or Err(Inner(e))
NoReturn == [kind |-> "none", retry_after |-> NULL, error |-> NoError]
ReturnOpen(d) == [kind |-> "Open", retry_after |-> d, error |-> NoError]
ReturnOk == [kind |-> "Ok", retry_after |-> NULL, error |-> NoError]
ReturnInner(e) == [kind |-> "Inner", retry_after |-> NULL, error |-> e]

\* the history of recorded results after one more event on the breaker:
\* failures counts the record_failure calls made in closed since the breaker
\* last became closed or a success was recorded; successes counts the
\* record_success calls made in half-open since the breaker became half-open;
\* last_failure is the instant of the latest record_failure call since new()
\* or reset()
Recorded(old, event, new) ==
    LET failures == CASE event = "failure" /\ old.state = Closed -> recorded.failures + 1
                      [] event \in {"success", "reset"} -> 0
                      [] OTHER -> recorded.failures
        successes == IF event = "success" /\ old.state = HalfOpen
                     THEN recorded.successes + 1 ELSE recorded.successes
    IN [failures |-> IF old.state = Closed /\ new.state = Closed THEN failures ELSE 0,
        successes |-> IF old.state = HalfOpen /\ new.state = HalfOpen
                      THEN successes ELSE 0,
        last_failure |-> CASE event = "failure" -> instant
                           [] event = "reset" -> NULL
                           [] OTHER -> recorded.last_failure]

\* call(), first block: under the lock, lazy transition, then reject if open
call_check(c) ==
    /\ call_pc[c] = "idle"
    /\ LET i == maybe_transition_to_half_open(inner)
       IN /\ inner' = i
          /\ recorded' = Recorded(inner, "inspect", i)
          /\ IF i.state = Open
             THEN /\ call_ret' = ReturnOpen(retry_after(i))
                  /\ UNCHANGED call_pc
             ELSE /\ call_pc' = [call_pc EXCEPT ![c] = "admitted"]
                  /\ UNCHANGED call_ret
    /\ UNCHANGED <<config, instant, outsideBreaker>>

\* call() recording every Err(e) as a failure, tripping or not
call_operation_records_every_error(c, result) ==
    /\ call_pc[c] = "admitted"
    /\ LET i == IF result = OkResult THEN record_success(inner)
                ELSE record_failure(inner, result)
           event == IF result = OkResult THEN "success" ELSE "failure"
       IN /\ inner' = i
          /\ recorded' = Recorded(inner, event, i)
    /\ call_ret' = IF result = OkResult THEN ReturnOk ELSE ReturnInner(result)
    /\ call_pc' = [call_pc EXCEPT ![c] = "idle"]
    /\ UNCHANGED <<config, instant, outsideBreaker>>

\* call(), the rest: operation().await returns result, the result is recorded
\* under the lock (a failure only if it trips the circuit), and call returns
call_operation(c, result) ==
    /\ call_pc[c] = "admitted"
    /\ LET i == CASE result = OkResult -> record_success(inner)
                  [] should_trip_circuit(result) -> record_failure(inner, result)
                  [] OTHER -> inner
           event == CASE result = OkResult -> "success"
                      [] should_trip_circuit(result) -> "failure"
                      [] OTHER -> "none"
       IN /\ inner' = i
          /\ recorded' = Recorded(inner, event, i)
    /\ call_ret' = IF result = OkResult THEN ReturnOk ELSE ReturnInner(result)
    /\ call_pc' = [call_pc EXCEPT ![c] = "idle"]
    /\ UNCHANGED <<config, instant, outsideBreaker>>

\* record_success() called directly
RecordSuccess ==
    /\ inner' = record_success(inner)
    /\ recorded' = Recorded(inner, "success", inner')
    /\ UNCHANGED <<config, instant, call_pc, call_ret, outsideBreaker>>

\* record_failure(&error) called directly
RecordFailure(e) ==
    /\ inner' = record_failure(inner, e)
    /\ recorded' = Recorded(inner, "failure", inner')
    /\ UNCHANGED <<config, instant, call_pc, call_ret, outsideBreaker>>

\* reset() called directly
Reset ==
    /\ inner' = reset(inner)
    /\ recorded' = Recorded(inner, "reset", inner')
    /\ UNCHANGED <<config, instant, call_pc, call_ret, outsideBreaker>>

\* state() or stats(): under the lock, lazy transition, then read
Inspect ==
    /\ inner' = maybe_transition_to_half_open(inner)
    /\ recorded' = Recorded(inner, "inspect", inner')
    /\ UNCHANGED <<config, instant, call_pc, call_ret, outsideBreaker>>

\* one time unit passes
BreakerTick ==
    /\ instant < MaxInstant
    /\ instant' = instant + 1
    /\ UNCHANGED <<config, inner, call_pc, call_ret, recorded, outsideBreaker>>

\* CircuitBreaker::new(name, cfg), no call in progress
BreakerNew(cfg) ==
    /\ config = cfg
    /\ inner = CircuitBreakerInner_new(cfg)
    /\ instant = 0
    /\ call_pc = [c \in Callers |-> "idle"]
    /\ call_ret = NoReturn
    /\ recorded = [failures |-> 0, successes |-> 0, last_failure |-> NULL]

\* ------------------------------------------------------- scrape pipeline
Scrapers == 1..NumScrapers
Keys == 1..NumKeys      \* (url, schema_name) pairs
Data == 1..NumData      \* values of extracted.to_string()

\* compute_hash: the SHA-256 digest of the content; distinct contents of the
\* model have distinct digests
compute_hash(content) == 100 + content

\* fetch -> clean -> extract -> hash -> compare -> save
PipelineOrder == <<"fetch", "clean", "extract", "get_latest", "save">>

\* the AppError a failing component hands back
StepError(step) ==
    CASE step = "fetch" -> "HttpError"
      [] step = "clean" -> "CleanerError"
      [] step = "extract" -> "LlmError"
      [] OTHER -> "DatabaseError"

\* Result<ScrapeResult, AppError>
NoResult == [kind |-> "none", changed |-> FALSE, extraction_id |-> NULL, error |-> "none"]
ScrapeOk(changed, id) == [kind |-> "Ok", changed |-> changed, extraction_id |-> id, error |-> "none"]
ScrapeErr(e) == [kind |-> "Err", changed |-> FALSE, extraction_id |-> NULL, error |-> e]

\* a run of scrape() that has not started: previous is Option<Extraction>
\* reduced to its data_hash, log lists the components invoked so far
NoRun == [key |-> NULL, data_hash |-> NULL, previous |-> NULL, log |-> <<>>,
          result |-> NoResult]

\* ExtractionRepository::get_latest: ORDER BY created_at DESC LIMIT 1
store_get_latest(rows, key) ==
    LET mine == {i \in DOMAIN rows : rows[i].key = key}
    IN IF mine = {} THEN NULL
       ELSE rows[CHOOSE i \in mine : \A j \in mine : j <= i].data_hash

\* a save that stores nothing when the latest row for the key has the same hash
store_save_unless_unchanged(rows, new_extraction) ==
    IF store_get_latest(rows, new_extraction.key) = new_extraction.data_hash
    THEN rows ELSE Append(rows, new_extraction)

\* ExtractionRepository::save: INSERT INTO extractions ... RETURNING id
store_save(rows, new_extraction) == Append(rows, new_extraction)

\* let changed = match &previous { Some(prev) => prev.data_hash != data_hash, None => true }
changed(previous, data_hash) == previous = NULL \/ previous # data_hash

\* where the run goes after a step regardless of the step's result
StepAfterIgnoringErrors(step, ok) ==
    CASE step = "fetch" -> "clean"
      [] step = "clean" -> "extract"
      [] step = "extract" -> IF store_attached THEN "get_latest" ELSE "returned"
      [] step = "get_latest" -> "save"
      [] OTHER -> "returned"

\* where the run goes after a step: `?` returns on Err, otherwise the next
\* component, the store's only if a store is attached
StepAfter(step, ok) ==
    IF ~ok THEN "returned"
    ELSE CASE step = "fetch" -> "clean"
           [] step = "clean" -> "extract"
           [] step = "extract" -> IF store_attached THEN "get_latest" ELSE "returned"
           [] step = "get_latest" -> "save"
           [] OTHER -> "returned"

\* the locals of run s after one more component was invoked; a failing
\* component's error is the run's result
Invoked(s, step, ok) ==
    LET logged == [scrape[s] EXCEPT !.log = Append(@, [step |-> step, ok |-> ok])]
    IN IF ok THEN logged ELSE [logged EXCEPT !.result = ScrapeErr(StepError(step))]

\* the rows in flight: stored, or to be stored by a run under way
InFlight == Len(extractions)
            + Cardinality({s \in Scrapers : scrape_pc[s] \notin {"idle", "returned"}})

\* scrape(url, schema, schema_name) is called
scrape_begin(s, key) ==
    /\ scrape_pc[s] \in {"idle", "returned"}
    /\ InFlight < MaxExtractions
    /\ scrape_pc' = [scrape_pc EXCEPT ![s] = "fetch"]
    /\ scrape' = [scrape EXCEPT ![s] = [NoRun EXCEPT !.key = key]]
    /\ UNCHANGED <<store_attached, extractions, outsideScrape>>

\* 1. let html = self.fetcher.fetch(url).await?
scrape_fetch(s, ok) ==
    /\ scrape_pc[s] = "fetch"
    /\ scrape_pc' = [scrape_pc EXCEPT ![s] = StepAfter("fetch", ok)]
    /\ scrape' = [scrape EXCEPT ![s] = Invoked(s, "fetch", ok)]
    /\ UNCHANGED <<store_attached, extractions, outsideScrape>>

\* 2. let markdown = self.cleaner.clean(&html)?
scrape_clean(s, ok) ==
    /\ scrape_pc[s] = "clean"
    /\ scrape_pc' = [scrape_pc EXCEPT ![s] = StepAfter("clean", ok)]
    /\ scrape' = [scrape EXCEPT ![s] = Invoked(s, "clean", ok)]
    /\ UNCHANGED <<store_attached, extractions, outsideScrape>>

\* 3. and 4. let extracted = self.extractor.extract(..).await?; the hashes;
\* without a store the run returns (changed, extraction_id) = (true, None)
scrape_extract(s, ok, data) ==
    /\ scrape_pc[s] = "extract"
    /\ scrape_pc' = [scrape_pc EXCEPT ![s] = StepAfter("extract", ok)]
    /\ scrape' = [scrape EXCEPT ![s] =
          IF ~ok THEN Invoked(s, "extract", ok)
          ELSE [Invoked(s, "extract", ok) EXCEPT
                   !.data_hash = compute_hash(data),
                   !.result = IF store_attached THEN @ ELSE ScrapeOk(TRUE, NULL)]]
    /\ UNCHANGED <<store_attached, extractions, outsideScrape>>

\* 5. let previous = store.get_latest(url, schema_name).await?
scrape_get_latest(s, ok) ==
    /\ scrape_pc[s] = "get_latest"
    /\ scrape_pc' = [scrape_pc EXCEPT ![s] = StepAfter("get_latest", ok)]
    /\ scrape' = [scrape EXCEPT ![s] =
          IF ~ok THEN Invoked(s, "get_latest", ok)
          ELSE [Invoked(s, "get_latest", ok) EXCEPT
                   !.previous = store_get_latest(extractions, scrape[s].key)]]
    /\ UNCHANGED <<store_attached, extractions, outsideScrape>>

\* 6. let id = store.save(&new_extraction).await?; Ok(ScrapeResult { .. })
scrape_save(s, ok) ==
    /\ scrape_pc[s] = "save"
    /\ scrape_pc' = [scrape_pc EXCEPT ![s] = StepAfter("save", ok)]
    /\ IF ok
       THEN /\ extractions' = store_save(extractions,
                                  [key |-> scrape[s].key, data_hash |-> scrape[s].data_hash])
            /\ scrape' = [scrape EXCEPT ![s] =
                  [Invoked(s, "save", ok) EXCEPT
                      !.result = ScrapeOk(changed(scrape[s].previous, scrape[s].data_hash),
                                          Len(extractions) + 1)]]
       ELSE /\ scrape' = [scrape EXCEPT ![s] = Invoked(s, "save", ok)]
            /\ UNCHANGED extractions
    /\ UNCHANGED <<store_attached, outsideScrape>>

\* ScrapeService::new (no store) or ScrapeService::with_store, nothing stored
\* yet and no run under way
ScrapeNew(attached) ==
    /\ store_attached = attached
    /\ extractions = <<>>
    /\ scrape_pc = [s \in Scrapers |-> "idle"]
    /\ scrape = [s \in Scrapers |-> NoRun]

\* ------------------------------------------------------ throttled fetcher
Tasks == 1..NumTasks
Domains == 1..NumDomains    \* domain keys scheme://host:port

\* ThrottleConfig::new(delay), with_jitter(jitter)
ThrottleConfigs == [delay : {ThrottleDelay}, jitter : {0, MaxJitter}]

\* rand_jitter_ms(max_ms): 0 if max_ms is 0, otherwise some x % max_ms
rand_jitter_ms(max_ms) == IF max_ms = 0 THEN {0} ELSE 0..(max_ms - 1)

\* effective_delay(): delay, plus a random jitter if one is configured
effective_delay(cfg) == {cfg.delay + j : j \in rand_jitter_ms(cfg.jitter)}

\* a task outside fetch()
NoFetch == [domain |-> NULL, wake_at |-> NULL]

\* the inner fetcher is reached: self.inner.fetch(url)
Reach(domain) == Append(reached, [domain |-> domain, at |-> clock])

\* fetch(url) up to the first await that can suspend: domain_key(url), then
\* wait_for_domain takes the lock; with no entry for the domain, or one old
\* enough, it records now and the request goes to the inner fetcher;
\* otherwise it drops the lock and sleeps for the remainder
fetch_begin(t, domain, required) ==
    /\ fetch_pc[t] = "idle"
    /\ Len(reached) + Cardinality({u \in Tasks : fetch_pc[u] # "idle"}) < MaxFetches
    /\ required \in effective_delay(throttle_config)
    /\ LET last == last_request[domain]
       IN IF last # NULL /\ clock - last < required
          THEN /\ fetch_pc' = [fetch_pc EXCEPT ![t] = "sleeping"]
               /\ fetching' = [fetching EXCEPT ![t] =
                     [domain |-> domain, wake_at |-> clock + (required - (clock - last))]]
               /\ UNCHANGED <<last_request, reached>>
          ELSE /\ last_request' = [last_request EXCEPT ![domain] = clock]
               /\ reached' = Reach(domain)
               /\ UNCHANGED <<fetch_pc, fetching>>
    /\ UNCHANGED <<throttle_config, clock, outsideThrottle>>

\* tokio::time::sleep(sleep_duration) is over: re-acquire the lock, record
\* now, and the request goes to the inner fetcher
fetch_wake(t) ==
    /\ fetch_pc[t] = "sleeping"
    /\ clock = fetching[t].wake_at
    /\ last_request' = [last_request EXCEPT ![fetching[t].domain] = clock]
    /\ reached' = Reach(fetching[t].domain)
    /\ fetch_pc' = [fetch_pc EXCEPT ![t] = "idle"]
    /\ fetching' = [fetching EXCEPT ![t] = NoFetch]
    /\ UNCHANGED <<throttle_config, clock, outsideThrottle>>

\* one time unit passes; a sleep that is over returns before time moves on
ThrottleTick ==
    /\ clock < MaxClock
    /\ \A t \in Tasks : fetch_pc[t] = "sleeping" => fetching[t].wake_at > clock
    /\ clock' = clock + 1
    /\ UNCHANGED <<throttle_config, last_request, fetch_pc, fetching, reached,
                   outsideThrottle>>

\* ThrottledFetcher::new(inner, config), shared by the tasks through clones
ThrottledFetcher_new(cfg) ==
    /\ throttle_config = cfg
    /\ last_request = [d \in Domains |-> NULL]
    /\ fetch_pc = [t \in Tasks |-> "idle"]
    /\ fetching = [t \in Tasks |-> NoFetch]
    /\ reached = <<>>
    /\ clock = 0

\* --------------------------------------------- one worker run, step by step
\* WorkerEvent values as the reporter sees them; info is will_retry (1 or 0)
\* of JobFailed, the extraction id of JobCompleted, jobs_released of
\* ShuttingDown
Event(kind, job_id, info) == [kind |-> kind, job_id |-> job_id, info |-> info]
Started == Event("Started", NULL, NULL)
Polling == Event("Polling", NULL, NULL)
JobClaimed(id) == Event("JobClaimed", id, NULL)
JobStarted(id) == Event("JobStarted", id, NULL)
JobCompleted(id, extraction_id) == Event("JobCompleted", id, extraction_id)
JobFailed(id, will_retry) == Event("JobFailed", id, IF will_retry THEN 1 ELSE 0)
ShuttingDown(jobs_released) == Event("ShuttingDown", NULL, jobs_released)
Stopped == Event("Stopped", NULL, NULL)

\* the (url, schema_name) of a job: columns create_job sets and nothing changes
job_key(id) == ((id - 1) % NumKeys) + 1

\* AppError::is_retryable
AppError_is_retryable(e) ==
    CASE e.kind \in {"NetworkError", "Timeout", "RateLimitExceeded"} -> TRUE
      [] e.kind = "LlmError" -> e.retryable
      [] e.kind = "HttpError" ->
            \/ contains(e.message, text_timeout)
            \/ contains(e.message, text_connect)
            \/ contains(e.message, text_reset)
      [] OTHER -> FALSE

\* the errors the pipeline hands back in a run: one transient that trips the
\* breaker, one permanent that does not
PipelineErrors == {NetworkError, SchemaValidationError}

\* the pages do not change during a run: the extractor returns the same data
\* every time
RunData == {CHOOSE d \in Data : TRUE}

\* a breaker that opens on the first failure and stays open for the run
RunBreakerConfig ==
    [failure_threshold |-> 1, success_threshold |-> 1,
     recovery_timeout |-> MaxBaseTimeout,
     rate_limit_backoff_multiplier |-> RateLimitBackoffMultiplier,
     max_recovery_timeout |-> MaxCapTimeout]

\* Result<ScrapeResult, CircuitBreakerError> held by process_job
NoScrape == [kind |-> "none", extraction_id |-> NULL, error |-> NoError]
ScrapedOk(extraction_id) == [kind |-> "Ok", extraction_id |-> extraction_id, error |-> NoError]
ScrapedErr(e) == [kind |-> "Err", extraction_id |-> NULL, error |-> e]

\* the queue calls process_job ends with, as the queue receives them
FailJob(id, next_retry_at) == [op |-> "fail_job", job_id |-> id, arg |-> next_retry_at]
CompleteJob(id, extraction_id) == [op |-> "complete_job", job_id |-> id, arg |-> extraction_id]

\* a rejection by the open breaker counted as permanent
rejection_not_retryable == FALSE

\* CircuitBreakerError::Open { .. } => (format!(..), true)
rejection_is_retryable == TRUE

\* process_job reporting nothing once the pipeline has returned
finish_events_silent(j, result) == <<>>

\* what process_job reports once the pipeline has returned
finish_events(j, result) ==
    IF result.kind = "Ok"
    THEN <<JobCompleted(j.id, result.extraction_id)>>
    ELSE <<JobFailed(j.id, can_retry(j) /\ AppError_is_retryable(result.error))>>

\* Polling events reported by this run
Polls == Cardinality({i \in DOMAIN events : events[i].kind = "Polling"})

\* the parts of the state a step of the run leaves alone
outsideRun == <<now, pc, job, locked, admin_calls, db_errors,
                config, instant, call_pc, call_ret,
                store_attached, scrape_pc, scrape, throttleVars, retryVars, errorVars>>

\* run(): reporter.report(Started)
run_start ==
    /\ run_pc = "start"
    /\ events' = Append(events, Started)
    /\ run_pc' = "loop"
    /\ UNCHANGED <<run_id, cancelled_during, finish_calls, cancelled, current, scraped, scrapes, release_calls,
                   jobs, inner, recorded, extractions, outsideRun>>

\* top of the loop: if cancel_token.is_cancelled() { break }; an iteration
\* that polls is started while the run has polls left
run_check ==
    /\ run_pc = "loop"
    /\ cancelled \/ Polls < MaxPolls
    /\ run_pc' = IF cancelled THEN "break" ELSE "poll"
    /\ UNCHANGED <<run_id, cancelled_during, finish_calls, cancelled, events, current, scraped, scrapes,
                   release_calls, jobs, inner, recorded, extractions, outsideRun>>

\* reporter.report(Polling); self.queue.claim_job(worker_id).await: a job is
\* claimed and reported, or there is none or the queue fails and the worker
\* goes to sleep
run_claim(db_ok) ==
    /\ run_pc = "poll"
    /\ Polls < MaxPolls
    /\ IF db_ok /\ SelectForClaim # {}
       THEN \E id \in SelectForClaim :
               LET row == claim_row(jobs[id], run_id)
               IN /\ jobs' = [jobs EXCEPT ![id] = row]
                  /\ current' = [id |-> id, retry_count |-> row.retry_count,
                                 max_retries |-> row.max_retries]
                  /\ events' = events \o <<Polling, JobClaimed(id)>>
                  /\ run_pc' = "claimed"
       ELSE /\ events' = Append(events, Polling)
            /\ run_pc' = "sleep"
            /\ UNCHANGED <<jobs, current>>
    /\ UNCHANGED <<run_id, cancelled_during, finish_calls, cancelled, scraped, scrapes, release_calls,
                   inner, recorded, extractions, outsideRun>>

\* tokio::time::sleep(poll_interval) elapses
run_sleep ==
    /\ run_pc = "sleep"
    /\ run_pc' = "loop"
    /\ UNCHANGED <<run_id, cancelled_during, finish_calls, cancelled, events, current, scraped, scrapes,
                   release_calls, jobs, inner, recorded, extractions, outsideRun>>

\* a sleep that does not watch the token
run_sleep_unwatched == FALSE /\ UNCHANGED vars

\* () = cancel_token.cancelled() => break
run_sleep_cancelled ==
    /\ run_pc = "sleep"
    /\ cancelled
    /\ run_pc' = "break"
    /\ UNCHANGED <<run_id, cancelled_during, finish_calls, cancelled, events, current, scraped, scrapes,
                   release_calls, jobs, inner, recorded, extractions, outsideRun>>

\* process_job retrying a job whose extractor factory failed retryably
process_start_retrying(factory, db_ok) ==
    /\ run_pc = "claimed"
    /\ IF factory = OkResult
       THEN /\ events' = Append(events, JobStarted(current.id))
            /\ run_pc' = "call"
            /\ UNCHANGED <<jobs, current, finish_calls>>
       ELSE LET will_retry == can_retry(current) /\ AppError_is_retryable(factory)
                next_retry == IF will_retry THEN calculate_next_retry(current) ELSE NULL
            IN /\ events' = events \o <<JobStarted(current.id),
                                        JobFailed(current.id, will_retry)>>
               /\ finish_calls' = Append(finish_calls, FailJob(current.id, next_retry))
               /\ jobs' = IF db_ok
                          THEN [jobs EXCEPT ![current.id] =
                                   fail_row(@, to_string(factory), next_retry)]
                          ELSE jobs
               /\ current' = NoJob
               /\ run_pc' = "loop"
    /\ UNCHANGED <<run_id, cancelled_during, cancelled, scraped, scrapes, release_calls,
                   inner, recorded, extractions, outsideRun>>

\* process_job: reporter.report(JobStarted), then extractor_factory.create
\* returns Ok(extractor) or Err(e); on Err(e) JobFailed { will_retry: false }
\* is reported and fail_job(id, e.to_string(), None) is called, its result
\* ignored
process_start(factory, db_ok) ==
    /\ run_pc = "claimed"
    /\ IF factory = OkResult
       THEN /\ events' = Append(events, JobStarted(current.id))
            /\ run_pc' = "call"
            /\ UNCHANGED <<jobs, current, finish_calls>>
       ELSE /\ events' = events \o <<JobStarted(current.id), JobFailed(current.id, FALSE)>>
            /\ finish_calls' = Append(finish_calls, FailJob(current.id, NULL))
            /\ jobs' = IF db_ok
                       THEN [jobs EXCEPT ![current.id] = fail_row(@, to_string(factory), NULL)]
                       ELSE jobs
            /\ current' = NoJob
            /\ run_pc' = "loop"
    /\ UNCHANGED <<run_id, cancelled_during, cancelled, scraped, scrapes, release_calls,
                   inner, recorded, extractions, outsideRun>>

\* process_job not charging the job for a call the open breaker rejected
process_rejected_uncharged(db_ok) ==
    /\ run_pc = "call"
    /\ maybe_transition_to_half_open(inner).state = Open
    /\ events' = Append(events, JobFailed(current.id, TRUE))
    /\ finish_calls' = Append(finish_calls, FailJob(current.id, now))
    /\ jobs' = IF db_ok
               THEN [jobs EXCEPT ![current.id] = release_row(@)]
               ELSE jobs
    /\ current' = NoJob
    /\ run_pc' = "loop"
    /\ UNCHANGED <<run_id, cancelled_during, cancelled, scraped, scrapes, release_calls,
                   inner, recorded, extractions, outsideRun>>

\* circuit_breaker.call(..) returns Err(Open): the operation is not invoked,
\* JobFailed is reported and fail_job is called with the next retry time if
\* the job can retry
process_rejected(db_ok) ==
    /\ run_pc = "call"
    /\ maybe_transition_to_half_open(inner).state = Open
    /\ LET will_retry == can_retry(current) /\ rejection_is_retryable
           next_retry == IF will_retry THEN calculate_next_retry(current) ELSE NULL
       IN /\ events' = Append(events, JobFailed(current.id, will_retry))
          /\ finish_calls' = Append(finish_calls, FailJob(current.id, next_retry))
          /\ jobs' = IF db_ok
                     THEN [jobs EXCEPT ![current.id] = fail_row(@, "circuit open", next_retry)]
                     ELSE jobs
    /\ current' = NoJob
    /\ run_pc' = "loop"
    /\ UNCHANGED <<run_id, cancelled_during, cancelled, scraped, scrapes, release_calls,
                   inner, recorded, extractions, outsideRun>>

\* circuit_breaker.call(..) admits the call: service.scrape(..) runs, storing
\* its extraction when it succeeds, and the breaker records the result
process_scrape(result, data) ==
    /\ run_pc = "call"
    /\ LET admitted == maybe_transition_to_half_open(inner)
       IN /\ admitted.state # Open
          /\ IF result = OkResult
             THEN /\ Len(extractions) < MaxExtractions
                  /\ extractions' = store_save(extractions,
                        [key |-> job_key(current.id), data_hash |-> compute_hash(data)])
                  /\ inner' = record_success(admitted)
                  /\ recorded' = Recorded(inner, "success", inner')
                  /\ scraped' = ScrapedOk(Len(extractions) + 1)
             ELSE /\ inner' = IF should_trip_circuit(result)
                              THEN record_failure(admitted, result) ELSE admitted
                  /\ recorded' = Recorded(inner,
                                    IF should_trip_circuit(result) THEN "failure" ELSE "inspect",
                                    inner')
                  /\ scraped' = ScrapedErr(result)
                  /\ UNCHANGED extractions
    /\ scrapes' = scrapes + 1
    /\ run_pc' = "scraped"
    /\ UNCHANGED <<run_id, cancelled_during, finish_calls, cancelled, events, current, release_calls, jobs, outsideRun>>

\* the call process_job makes on the queue once the pipeline has returned
finish_call(j, result) ==
    IF result.kind = "Ok"
    THEN CompleteJob(j.id, result.extraction_id)
    ELSE FailJob(j.id, IF can_retry(j) /\ AppError_is_retryable(result.error)
                       THEN calculate_next_retry(j) ELSE NULL)

\* process_job after the breaker call: JobCompleted and complete_job, or
\* JobFailed and fail_job; a queue error is logged and the row left as it is
process_finish(db_ok) ==
    /\ run_pc = "scraped"
    /\ events' = events \o finish_events(current, scraped)
    /\ LET call == finish_call(current, scraped)
       IN /\ finish_calls' = Append(finish_calls, call)
          /\ jobs' =
                IF ~db_ok THEN jobs
                ELSE IF call.op = "complete_job"
                THEN [jobs EXCEPT ![call.job_id] = complete_row(@, call.arg)]
                ELSE [jobs EXCEPT ![call.job_id] =
                         fail_row(@, to_string(scraped.error), call.arg)]
    /\ current' = NoJob
    /\ scraped' = NoScrape
    /\ run_pc' = "loop"
    /\ UNCHANGED <<run_id, cancelled_during, cancelled, scrapes, release_calls,
                   inner, recorded, extractions, outsideRun>>

\* after the loop: release_worker_jobs(worker_id).await.unwrap_or(0), then
\* ShuttingDown and Stopped are reported and run returns Ok(())
run_release(db_ok) ==
    /\ run_pc = "break"
    /\ jobs' = IF db_ok
               THEN [id \in JobIds |-> release_worker_row(jobs[id], run_id)]
               ELSE jobs
    /\ events' = events \o <<ShuttingDown(IF db_ok THEN released_count(run_id) ELSE 0),
                             Stopped>>
    /\ release_calls' = release_calls + 1
    /\ run_pc' = "returned"
    /\ UNCHANGED <<run_id, cancelled_during, finish_calls, cancelled, current, scraped, scrapes,
                   inner, recorded, extractions, outsideRun>>

\* process_job is running
InProcess == run_pc \in {"claimed", "call", "scraped"}

\* a cancellation that makes process_job give up the job it is working on
Cancel_aborting ==
    /\ ~cancelled
    /\ run_pc \notin {"returned", "crashed"}
    /\ cancelled' = TRUE
    /\ cancelled_during' = IF InProcess THEN current.id ELSE NULL
    /\ run_pc' = IF InProcess THEN "break" ELSE run_pc
    /\ UNCHANGED <<run_id, finish_calls, events, current, scraped, scrapes,
                   release_calls, jobs, inner, recorded, extractions, outsideRun>>

\* cancel_token.cancel(), from the task that waits for ctrl-c
Cancel ==
    /\ ~cancelled
    /\ run_pc \notin {"returned", "crashed"}
    /\ cancelled' = TRUE
    /\ cancelled_during' = IF InProcess THEN current.id ELSE NULL
    /\ UNCHANGED <<run_pc, run_id, finish_calls, events, current, scraped, scrapes,
                   release_calls, jobs, inner, recorded, extractions, outsideRun>>

\* the worker process dies: nothing more is executed or reported
Crash ==
    /\ run_pc \notin {"start", "returned", "crashed"}
    /\ run_id < NumWorkers
    /\ run_pc' = "crashed"
    /\ UNCHANGED <<run_id, cancelled_during, finish_calls, cancelled, events, current, scraped, scrapes,
                   release_calls, jobs, inner, recorded, extractions, outsideRun>>

\* a new worker process: WorkerService::new with a fresh worker_id, a fresh
\* breaker and token, and run() about to start
Restart ==
    /\ run_pc = "crashed"
    /\ run_id' = run_id + 1
    /\ run_pc' = "start"
    /\ cancelled' = FALSE
    /\ events' = <<>>
    /\ current' = NoJob
    /\ scraped' = NoScrape
    /\ scrapes' = 0
    /\ release_calls' = 0
    /\ finish_calls' = <<>>
    /\ cancelled_during' = NULL
    /\ inner' = CircuitBreakerInner_new(config)
    /\ recorded' = [failures |-> 0, successes |-> 0, last_failure |-> NULL]
    /\ UNCHANGED <<jobs, extractions, outsideRun>>

\* WorkerService::new(..) and a token nobody has cancelled
WorkerService_new ==
    /\ run_pc = "start"
    /\ run_id = 1
    /\ cancelled = FALSE
    /\ events = <<>>
    /\ current = NoJob
    /\ scraped = NoScrape
    /\ scrapes = 0
    /\ release_calls = 0
    /\ finish_calls = <<>>
    /\ cancelled_during = NULL

\* ------------------------------------------------- the error classification
\* message texts of HttpError values: "timeout", "connect", "connection",
\* "reset", "reconnect", "connection reset", "timed out", "404" and the
\* empty text
HttpMessages ==
    {text_timeout, text_connect, text_connection, text_reset,
     <<"r", "e">> \o text_connect,
     text_connection \o <<" ">> \o text_reset,
     <<"t", "i", "m", "e", "d", " ", "o", "u", "t">>,
     <<"4", "0", "4">>,
     <<>>}

\* AppError values of every kind
AppErrors ==
    {RateLimitExceeded, NetworkError, Timeout, CleanerError, SchemaValidationError,
     SerializationError, DatabaseError, Generic}
    \cup {LlmError(status, flag) : status \in {400, 429, 499, 500, 503}, flag \in BOOLEAN}
    \cup {HttpError(m) : m \in HttpMessages}

\* error.is_retryable() is called and returns
IsRetryable ==
    /\ classified' = [classified EXCEPT !.is_retryable = <<AppError_is_retryable(app_error)>>]
    /\ UNCHANGED <<app_error, outsideError>>

\* error.should_trip_circuit() is called and returns
ShouldTripCircuit ==
    /\ classified' = [classified EXCEPT
                         !.should_trip_circuit = <<should_trip_circuit(app_error)>>]
    /\ UNCHANGED <<app_error, outsideError>>

\* another error value comes up
NextError(e) ==
    /\ app_error' = e
    /\ classified' = [is_retryable |-> <<>>, should_trip_circuit |-> <<>>]
    /\ UNCHANGED outsideError

\* an error value nothing has been asked about
ErrorNew(e) ==
    /\ app_error = e
    /\ classified = [is_retryable |-> <<>>, should_trip_circuit |-> <<>>]

\* ------------------------------------------------- calls of the retry schedule
\* the retry configurations a worker is given: max_delay below, between and
\* above the steps of the schedule
RetryConfigs ==
    {[RetryConfig_default EXCEPT !.max_delay = d] :
        d \in {1, MaxDelayMinutes, 5, 30, 45, 60, 90}}

\* no call of the schedule has returned yet
NoRetryCall == [op |-> "none", arg |-> NULL, at |-> NULL, ret |-> NULL]

\* config.delay_for_attempt(attempt) is called and returns
DelayForAttempt(attempt) ==
    /\ retry_ret' = [op |-> "delay_for_attempt", arg |-> attempt, at |-> now,
                     ret |-> delay_for_attempt(attempt)]
    /\ UNCHANGED <<retry_config, outsideRetry>>

\* job.calculate_next_retry(&config) is called on a job with this retry_count
\* and returns
CalculateNextRetry(retry_count) ==
    /\ retry_ret' = [op |-> "calculate_next_retry", arg |-> retry_count, at |-> now,
                     ret |-> calculate_next_retry([NoJob EXCEPT !.retry_count = retry_count])]
    /\ UNCHANGED <<retry_config, outsideRetry>>

\* a worker configuration with this RetryConfig, no call made yet
RetryNew(cfg) ==
    /\ retry_config = cfg
    /\ retry_ret = NoRetryCall

\* ---------------------------------------------------------- specification
\* an empty scrape_jobs table and workers entering their loop
QueueInit ==
    /\ jobs = <<>>
    /\ now = 0
    /\ pc = [w \in Workers |-> "loop"]
    /\ job = [w \in Workers |-> NoJob]
    /\ locked = [w \in Workers |-> NULL]
    /\ admin_calls = 0
    /\ db_errors = 0

\* the parts of the system a specification leaves alone
Rest ==
    /\ ThrottledFetcher_new([delay |-> ThrottleDelay, jitter |-> 0])
    /\ WorkerService_new
    /\ RetryNew([RetryConfig_default EXCEPT !.max_delay = MaxDelayMinutes])
    /\ ErrorNew(RateLimitExceeded)

Init == QueueInit /\ BreakerNew(DefaultConfig) /\ ScrapeNew(TRUE) /\ Rest

Next ==
    \/ \E m \in 0..MaxRetriesInput : create_job(m)
    \/ \E id \in JobIds : cancel_job(id)
    \/ \E id \in JobIds : release_job(id)
    \/ \E w \in Workers : release_worker_jobs(w)
    \/ \E w \in Workers : claim_job_select(w)
    \/ \E w \in Workers : claim_job_update(w)
    \/ \E w \in Workers : claim_job_error(w)
    \/ \E w \in Workers : Sleep(w)
    \/ \E w \in Workers, o \in Outcomes, e \in 1..MaxExtractionId :
          process_job(w, o, e, TRUE)
    \/ \E w \in Workers, o \in Outcomes : process_job(w, o, NULL, FALSE)
    \/ \E w \in Workers, ok \in BOOLEAN : Shutdown(w, ok)
    \/ Tick

Spec == Init /\ [][Next]_vars

\* the breaker on its own: built with any configuration, used by concurrent
\* callers and through its public methods while time passes
BreakerInit == QueueInit /\ (\E cfg \in Configs : BreakerNew(cfg)) /\ ScrapeNew(TRUE) /\ Rest

BreakerNext ==
    \/ \E c \in Callers : call_check(c)
    \/ \E c \in Callers, r \in OperationResults : call_operation(c, r)
    \/ RecordSuccess
    \/ \E e \in TrippingErrors : RecordFailure(e)
    \/ Reset
    \/ Inspect
    \/ BreakerTick

BreakerSpec == BreakerInit /\ [][BreakerNext]_vars

\* the pipeline on its own: concurrent runs of scrape() with or without a
\* store, every component free to fail
ScrapeInit == QueueInit /\ BreakerNew(DefaultConfig) /\ (\E a \in BOOLEAN : ScrapeNew(a)) /\ Rest

ScrapeNext ==
    \/ \E s \in Scrapers, k \in Keys : scrape_begin(s, k)
    \/ \E s \in Scrapers, ok \in BOOLEAN : scrape_fetch(s, ok)
    \/ \E s \in Scrapers, ok \in BOOLEAN : scrape_clean(s, ok)
    \/ \E s \in Scrapers, ok \in BOOLEAN, d \in Data : scrape_extract(s, ok, d)
    \/ \E s \in Scrapers, ok \in BOOLEAN : scrape_get_latest(s, ok)
    \/ \E s \in Scrapers, ok \in BOOLEAN : scrape_save(s, ok)

ScrapeSpec == ScrapeInit /\ [][ScrapeNext]_vars

\* the throttled fetcher on its own: tasks fetching from a few domains
\* through clones that share the throttle, while time passes
ThrottleInit ==
    /\ QueueInit /\ BreakerNew(DefaultConfig) /\ ScrapeNew(TRUE)
    /\ \E cfg \in ThrottleConfigs : ThrottledFetcher_new(cfg)
    /\ WorkerService_new
    /\ RetryNew([RetryConfig_default EXCEPT !.max_delay = MaxDelayMinutes])
    /\ ErrorNew(RateLimitExceeded)

ThrottleNext ==
    \/ \E t \in Tasks, d \in Domains, r \in ThrottleDelay..(ThrottleDelay + MaxJitter) :
          fetch_begin(t, d, r)
    \/ \E t \in Tasks : fetch_wake(t)
    \/ ThrottleTick

ThrottleSpec == ThrottleInit /\ [][ThrottleNext]_vars

\* one worker process at a time running against the queue, the store and its
\* breaker, step by step: jobs are created and released from outside, the
\* token is cancelled at any moment, the process may die and be replaced
RunInit == QueueInit /\ BreakerNew(RunBreakerConfig) /\ ScrapeNew(TRUE) /\ Rest

RunNext ==
    \/ \E m \in 0..MaxRetriesInput : create_job(m)
    \/ \E id \in JobIds : release_job(id)
    \/ \E w \in Workers : release_worker_jobs(w)
    \/ Tick
    \/ run_start
    \/ run_check
    \/ \E db_ok \in BOOLEAN : run_claim(db_ok)
    \/ run_sleep
    \/ run_sleep_cancelled
    \/ \E f \in {OkResult} \cup PipelineErrors, db_ok \in BOOLEAN : process_start(f, db_ok)
    \/ \E db_ok \in BOOLEAN : process_rejected(db_ok)
    \/ \E r \in {OkResult} \cup PipelineErrors, d \in RunData : process_scrape(r, d)
    \/ \E db_ok \in BOOLEAN : process_finish(db_ok)
    \/ \E db_ok \in BOOLEAN : run_release(db_ok)
    \/ Cancel
    \/ Crash
    \/ Restart

RunSpec == RunInit /\ [][RunNext]_vars

\* a step of the task that runs run(), the poll timer's expiry apart: each
\* await of the task returns and the task is scheduled again
RunStep ==
    \/ run_start
    \/ run_check
    \/ \E db_ok \in BOOLEAN : run_claim(db_ok)
    \/ run_sleep_cancelled
    \/ \E f \in {OkResult} \cup PipelineErrors, db_ok \in BOOLEAN : process_start(f, db_ok)
    \/ \E db_ok \in BOOLEAN : process_rejected(db_ok)
    \/ \E r \in {OkResult} \cup PipelineErrors, d \in RunData : process_scrape(r, d)
    \/ \E db_ok \in BOOLEAN : process_finish(db_ok)
    \/ \E db_ok \in BOOLEAN : run_release(db_ok)

\* a worker process that stays alive: its task keeps being scheduled and the
\* pipeline and queue calls it awaits return, with whatever result; when the
\* poll timer fires, when jobs are created or released and when the token is
\* cancelled is left open
ShutdownNext ==
    \/ \E m \in 0..MaxRetriesInput : create_job(m)
    \/ \E id \in JobIds : release_job(id)
    \/ \E w \in Workers : release_worker_jobs(w)
    \/ Tick
    \/ run_sleep
    \/ Cancel
    \/ RunStep

ShutdownSpec == RunInit /\ [][ShutdownNext]_vars /\ WF_vars(RunStep)

\* a step of worker w's task: its queue calls and its pipeline return, its
\* poll sleep ends
WorkerStep(w) ==
    \/ claim_job_select(w)
    \/ claim_job_update(w)
    \/ Sleep(w)
    \/ \E o \in Outcomes, e \in 1..MaxExtractionId : process_job(w, o, e, TRUE)

\* the queue with workers that do not die and queue calls that do not fail:
\* worker 1 keeps running, the others may be shut down; a bounded number of
\* jobs is created and cancelled or released from outside; time goes on
LiveNext ==
    \/ \E m \in 0..MaxRetriesInput : create_job(m)
    \/ \E id \in JobIds : cancel_job(id)
    \/ \E id \in JobIds : release_job(id)
    \/ \E w \in Workers : release_worker_jobs(w)
    \/ \E w \in Workers : WorkerStep(w)
    \/ \E w \in Workers \ {1} : Shutdown(w, TRUE)
    \/ Elapse

LiveSpec ==
    /\ Init /\ [][LiveNext]_vars
    /\ \A w \in Workers : WF_vars(WorkerStep(w))
    /\ WF_vars(Elapse)

\* the retry schedule on its own: delay_for_attempt and calculate_next_retry
\* called with any attempt number under any of the configurations, while time
\* passes
RetryInit ==
    /\ QueueInit /\ BreakerNew(DefaultConfig) /\ ScrapeNew(TRUE)
    /\ ThrottledFetcher_new([delay |-> ThrottleDelay, jitter |-> 0])
    /\ WorkerService_new
    /\ \E cfg \in RetryConfigs : RetryNew(cfg)
    /\ ErrorNew(RateLimitExceeded)

RetryNext ==
    \/ \E n \in 0..MaxAttempt : DelayForAttempt(n)
    \/ \E c \in 0..(MaxAttempt - 1) : CalculateNextRetry(c)
    \/ Tick

RetrySpec == RetryInit /\ [][RetryNext]_vars

\* the classification on its own: is_retryable and should_trip_circuit asked
\* about error values of every kind
ErrorInit ==
    /\ QueueInit /\ BreakerNew(DefaultConfig) /\ ScrapeNew(TRUE)
    /\ ThrottledFetcher_new([delay |-> ThrottleDelay, jitter |-> 0])
    /\ WorkerService_new
    /\ RetryNew([RetryConfig_default EXCEPT !.max_delay = MaxDelayMinutes])
    /\ \E e \in AppErrors : ErrorNew(e)

ErrorNext ==
    \/ IsRetryable
    \/ ShouldTripCircuit
    \/ \E e \in AppErrors : NextError(e)

ErrorSpec == ErrorInit /\ [][ErrorNext]_vars

\* ------------------------------------------------------------------ steps
\* the workers whose process_job for row id is in progress
Processors(id) == {w \in Workers : pc[w] = "process" /\ job[w].id = id}

\* worker w's claim_job selects and locks a row
ClaimSelects(w) == pc[w] = "loop" /\ pc'[w] = "claiming"

\* worker w's claim_job returns Some(job)
ClaimReturns(w) == pc[w] = "claiming" /\ pc'[w] = "process"

\* worker w's claim_job returns Ok(None)
ClaimReturnsNone(w) == pc[w] = "loop" /\ pc'[w] = "sleep" /\ db_errors' = db_errors

\* worker w's complete_job or fail_job for its snapshot is executed
WorkerWrites(w) == pc[w] = "process" /\ pc'[w] = "loop" /\ db_errors' = db_errors

\* a fail_job with a next_retry_at is executed on row id
FailWithRetry(id) ==
    \E w \in Workers :
        /\ WorkerWrites(w) /\ job[w].id = id
        /\ jobs'[id].status = Pending /\ jobs'[id].next_retry_at # NULL

\* ----------------------------------------------------------------- claims

\* C1: every claim_job that returns a job is a pending -> running transition of
\* that row, stamped with the caller's id, and no other worker's claim holds or
\* returns the same row for it; the rows racing workers hold are distinct.
C1_NoDoubleClaim ==
    [][\A w \in Workers :
          /\ ClaimSelects(w) =>
                \A v \in Workers \ {w} : locked[v] # locked'[w]
          /\ ClaimReturns(w) =>
                LET id == job'[w].id
                IN /\ id = locked[w]
                   /\ jobs[id].status = Pending
                   /\ jobs'[id].status = Running
                   /\ jobs'[id].worker_id = w
                   /\ \A v \in Workers \ {w} :
                         locked[v] # id /\ ~(ClaimReturns(v) /\ job'[v].id = id)]_vars

\* two workers raced on two pending rows and each won one of them
C1_Witness ==
    \E w, v \in Workers :
        /\ w # v /\ pc[w] = "process" /\ pc[v] = "process"
        /\ job[w].id # job[v].id
        /\ jobs[job[w].id].worker_id = w /\ jobs[job[v].id].worker_id = v
        /\ \A id \in JobIds : jobs[id].status = Running

\* C2 as stated: at any time at most one worker is processing a given job
C2_AtMostOneProcessor ==
    \A id \in JobIds : Cardinality(Processors(id)) <= 1

\* C3: claim_job selects and returns only a row that is pending and due; the row
\* it returns is running, carries the caller's id and has started_at set; when it
\* returns None no row is changed and no unlocked row was pending and due.
C3_ClaimOnlyEligible ==
    [][\A w \in Workers :
          /\ ClaimSelects(w) =>
                LET r == jobs[locked'[w]]
                IN /\ r.status = Pending
                   /\ (r.next_retry_at = NULL \/ r.next_retry_at <= now)
                   /\ jobs' = jobs
          /\ ClaimReturns(w) =>
                LET id == job'[w].id
                IN /\ jobs[id].status = Pending
                   /\ (jobs[id].next_retry_at = NULL \/ jobs[id].next_retry_at <= now)
                   /\ jobs'[id].status = Running
                   /\ jobs'[id].worker_id = w
                   /\ jobs'[id].started_at = now /\ jobs'[id].started_at # NULL
                   /\ job'[w].retry_count = jobs'[id].retry_count
                   /\ job'[w].max_retries = jobs'[id].max_retries
                   /\ \A other \in JobIds \ {id} : jobs'[other] = jobs[other]
          /\ ClaimReturnsNone(w) =>
                /\ jobs' = jobs
                /\ \A id \in JobIds :
                      ~(/\ jobs[id].status = Pending
                        /\ (jobs[id].next_retry_at = NULL \/ jobs[id].next_retry_at <= now)
                        /\ \A v \in Workers : locked[v] # id)]_vars

\* a claim returned None while a pending row was waiting for its retry time
C3_Witness ==
    \E id \in JobIds, w \in Workers :
        /\ jobs[id].status = Pending /\ jobs[id].next_retry_at # NULL
        /\ jobs[id].next_retry_at > now
        /\ pc[w] = "sleep" /\ db_errors = 0

\* the order of C4, spelled out: a comes first of a and b
C4_ComesFirst(a, b) ==
    IF a.next_retry_at = NULL
    THEN b.next_retry_at = NULL => a.created_at < b.created_at
    ELSE /\ b.next_retry_at # NULL
         /\ \/ a.next_retry_at < b.next_retry_at
            \/ a.next_retry_at = b.next_retry_at /\ a.created_at < b.created_at

C5_RetryBound ==
    \A id \in JobIds : jobs[id].retry_count <= jobs[id].max_retries

\* C6: retry_count changes only in a fail_job that carries a next_retry_at, and
\* then it grows by exactly 1.
C6_RetryCountMonotone ==
    [][\A id \in JobIds :
          /\ jobs'[id].retry_count >= jobs[id].retry_count
          /\ jobs'[id].retry_count # jobs[id].retry_count =>
                /\ jobs'[id].retry_count = jobs[id].retry_count + 1
                /\ FailWithRetry(id)
          /\ FailWithRetry(id) => jobs'[id].retry_count = jobs[id].retry_count + 1]_vars

\* a job that was retried once and then failed permanently keeps its count
C6_Witness ==
    \E id \in JobIds :
        /\ jobs[id].status = Failed /\ jobs[id].retry_count = 1
        /\ jobs[id].max_retries = 1

\* C7 as stated: no fail_job with a next_retry_at is executed on a row whose
\* retry_count has reached max_retries
C7_NoRetryAtMax ==
    [][\A id \in JobIds :
          jobs[id].retry_count >= jobs[id].max_retries => ~FailWithRetry(id)]_vars

\* C8 as stated: claim_job, fail_job and cancel_job leave a terminal row as it is
C8_TerminalUntouched ==
    [][\A id \in JobIds :
          is_terminal(jobs[id].status) =>
             /\ (\E w \in Workers : ClaimReturns(w) /\ locked[w] = id)
                   => jobs'[id] = jobs[id]
             /\ (\E w \in Workers : WorkerWrites(w) /\ job[w].id = id
                                    /\ jobs'[id].status # Completed)
                   => jobs'[id] = jobs[id]
             /\ cancel_job(id) => jobs'[id] = jobs[id]]_vars

\* C9 as stated: a cancelled job stays cancelled
C9_CancelledStays ==
    [][\A id \in JobIds :
          jobs[id].status = Cancelled => jobs'[id].status = Cancelled]_vars

\* C10: cancel_job moves a pending or running row to cancelled with worker_id
\* null, leaves a completed row as it is, always ends in cancelled or completed,
\* and leaves the status of a row that is already cancelled or completed (the
\* result of an earlier cancel_job) unchanged.
C10_CancelIdempotent ==
    [][\A id \in JobIds :
          cancel_job(id) =>
             /\ jobs[id].status \in {Pending, Running} =>
                   jobs'[id].status = Cancelled /\ jobs'[id].worker_id = NULL
             /\ jobs[id].status = Completed => jobs'[id] = jobs[id]
             /\ jobs'[id].status \in {Cancelled, Completed}
             /\ jobs[id].status \in {Cancelled, Completed} =>
                   jobs'[id].status = jobs[id].status
             /\ \A other \in JobIds \ {id} : jobs'[other] = jobs[other]]_vars

\* a running job was cancelled, and cancel_job was then called on it again
C10_Witness ==
    \E id \in JobIds :
        /\ jobs[id].status = Cancelled /\ jobs[id].started_at # NULL
        /\ jobs[id].worker_id = NULL /\ admin_calls = 2

\* the rows a release_worker_jobs(w) matches: running under worker id w
RunningUnder(w) == {id \in JobIds : jobs[id].status = Running /\ jobs[id].worker_id = w}

\* C11: a release_worker_jobs(w), called from outside or by worker w's shutdown,
\* that returns n changes exactly n rows, the ones that were running with
\* worker_id = w: each is now pending with worker_id and started_at null and is
\* otherwise as before; every other row is unchanged.
C11_ReleaseWorkerJobs ==
    [][\A w \in Workers :
          release_worker_jobs(w) \/ Shutdown(w, TRUE) =>
             LET n == released_count(w)
             IN /\ Cardinality({id \in JobIds : jobs'[id] # jobs[id]}) = n
                /\ Cardinality({id \in JobIds : jobs[id].status = Running
                                                /\ jobs'[id].status = Pending}) = n
                /\ \A id \in RunningUnder(w) :
                      jobs'[id] = [jobs[id] EXCEPT !.status = Pending,
                                                   !.worker_id = NULL,
                                                   !.started_at = NULL]
                /\ \A id \in JobIds \ RunningUnder(w) : jobs'[id] = jobs[id]]_vars

\* one release_worker_jobs call returned 2: worker w, still processing job 2,
\* had left job 1 running after a queue error, and both rows are pending again
C11_Witness ==
    \E w \in Workers :
        /\ Len(jobs) >= 2 /\ Processors(2) = {w}
        /\ jobs[1].status = Pending /\ jobs[1].retry_count = 0
        /\ jobs[2].status = Pending /\ jobs[2].retry_count = 0
        /\ jobs[1].started_at = NULL /\ jobs[1].worker_id = NULL
        /\ jobs[2].started_at = NULL /\ jobs[2].worker_id = NULL
        /\ admin_calls = 1
        /\ \A v \in Workers : pc[v] # "stopped"

\* C12: in every reachable state a row's worker_id is non-null if and only if
\* its status is running.
C12_WorkerIdIffRunning ==
    \A id \in JobIds : (jobs[id].worker_id # NULL) <=> (jobs[id].status = Running)

\* one job was claimed and completed while another is running under a worker
C12_Witness ==
    \E a, b \in JobIds :
        /\ jobs[a].status = Completed /\ jobs[a].worker_id = NULL
        /\ jobs[a].started_at # NULL
        /\ jobs[b].status = Running /\ jobs[b].worker_id \in Workers

\* C13 as stated: in every reachable state a row's next_retry_at is non-null
\* only if its status is pending and its retry_count is at least 1
C13_NextRetryOnlyPending ==
    \A id \in JobIds :
        jobs[id].next_retry_at # NULL =>
            jobs[id].status = Pending /\ jobs[id].retry_count >= 1

\* C14: a fail_job a worker issues for a row that is running: with a
\* next_retry_at the row becomes pending, retry_count grows by 1, next_retry_at
\* is the given time, started_at and worker_id are null; without one the row
\* becomes failed, retry_count is unchanged and worker_id is null; in both cases
\* error_message is the given message.
C14_FailJobEffect ==
    [][\A w \in Workers, o \in Outcomes \ {"ok"} :
          process_job(w, o, NULL, TRUE) /\ jobs[job[w].id].status = Running =>
             LET id == job[w].id
                 retry == o # "factory_error" /\ can_retry(job[w]) /\ is_retryable(o)
             IN /\ jobs'[id].error_message = error_msg(o)
                /\ jobs'[id].worker_id = NULL
                /\ retry =>
                      /\ jobs'[id].status = Pending
                      /\ jobs'[id].retry_count = jobs[id].retry_count + 1
                      /\ jobs'[id].next_retry_at = calculate_next_retry(job[w])
                      /\ jobs'[id].next_retry_at # NULL
                      /\ jobs'[id].started_at = NULL
                /\ ~retry =>
                      /\ jobs'[id].status = Failed
                      /\ jobs'[id].retry_count = jobs[id].retry_count]_vars

\* with no call from outside the workers, one running job was failed with a
\* retry and another was failed for good
C14_Witness ==
    \E a, b \in JobIds :
        /\ admin_calls = 0
        /\ jobs[a].status = Pending /\ jobs[a].retry_count = 1
        /\ jobs[a].next_retry_at # NULL /\ jobs[a].started_at = NULL
        /\ jobs[a].worker_id = NULL /\ jobs[a].error_message # NoMessage
        /\ jobs[b].status = Failed /\ jobs[b].retry_count = 0
        /\ jobs[b].worker_id = NULL /\ jobs[b].error_message # NoMessage

\* C15: a complete_job a worker issues for a row that is running makes the row
\* completed, sets completed_at, stores the given extraction_id, sets worker_id
\* and error_message to null and leaves retry_count as it was.
C15_CompleteJobEffect ==
    [][\A w \in Workers, e \in 1..MaxExtractionId :
          process_job(w, "ok", e, TRUE) /\ jobs[job[w].id].status = Running =>
             LET id == job[w].id
             IN /\ jobs'[id].status = Completed
                /\ jobs'[id].completed_at = now /\ jobs'[id].completed_at # NULL
                /\ jobs'[id].extraction_id = e
                /\ jobs'[id].worker_id = NULL
                /\ jobs'[id].error_message = NoMessage
                /\ jobs'[id].retry_count = jobs[id].retry_count]_vars

\* with no call from outside the workers, a job that had failed once and was
\* retried is completed: its error message is gone and its retry count is kept
C15_Witness ==
    \E id \in JobIds :
        /\ admin_calls = 0
        /\ jobs[id].status = Completed /\ jobs[id].retry_count = 1
        /\ jobs[id].completed_at # NULL /\ jobs[id].extraction_id # NULL
        /\ jobs[id].worker_id = NULL /\ jobs[id].error_message = NoMessage

\* the breaker is open and its dwell has not elapsed: state() reports open
StillOpen ==
    /\ inner.state = Open
    /\ inner.last_failure_time # NULL =>
          instant - inner.last_failure_time < inner.current_recovery_timeout

\* C16: while the breaker is open, a call does not get to its operation: it is
\* not admitted, it returns Open with the time left until half-open, and it
\* leaves the breaker as it is, whatever the other callers are doing.
C16_OpenRejects ==
    [][StillOpen =>
          \A c \in Callers :
             /\ ~(call_pc[c] = "idle" /\ call_pc'[c] = "admitted")
             /\ call_check(c) =>
                   /\ call_pc'[c] = "idle"
                   /\ call_ret'.kind = "Open"
                   /\ call_ret'.retry_after =
                         inner.current_recovery_timeout
                            - (instant - inner.last_failure_time)
                   /\ call_ret'.retry_after > 0
                   /\ inner' = inner]_vars

\* a call was rejected with 2 time units to go while another caller, admitted
\* before the breaker opened, is still in its operation
C16_Witness ==
    /\ StillOpen
    /\ call_ret.kind = "Open" /\ call_ret.retry_after = 2
    /\ \E c, d \in Callers : call_pc[c] = "admitted" /\ call_pc[d] = "idle"

\* a failure is recorded: record_failure directly, or a call whose operation
\* returned a tripping error
FailureRecorded ==
    \E e \in TrippingErrors : RecordFailure(e) \/ \E c \in Callers : call_operation(c, e)

\* a success is recorded: record_success directly, or a call whose operation
\* returned Ok
SuccessRecorded ==
    RecordSuccess \/ \E c \in Callers : call_operation(c, OkResult)

\* C17: a closed breaker has had fewer than failure_threshold failures recorded
\* since it became closed or last recorded a success; a failure recorded in
\* closed that is the failure_threshold-th in a row opens the breaker, an
\* earlier one leaves it closed; nothing else opens it; and a success recorded
\* in closed puts the count of consecutive failures back to zero.
C17_OpensAtThreshold ==
    [][inner.state = Closed =>
          /\ recorded.failures < config.failure_threshold
          /\ inner.failure_count = recorded.failures
          /\ FailureRecorded =>
                IF recorded.failures + 1 >= config.failure_threshold
                THEN inner'.state = Open
                ELSE inner'.state = Closed
                     /\ inner'.failure_count = recorded.failures + 1
          /\ inner'.state = Open =>
                FailureRecorded /\ recorded.failures + 1 = config.failure_threshold
          /\ SuccessRecorded =>
                inner'.state = Closed /\ inner'.failure_count = 0]_vars

\* a breaker with failure_threshold 2 is open after two failures in a row
C17_Witness ==
    /\ config.failure_threshold = 2
    /\ inner.state = Open /\ inner.failure_count = 2

\* C18: a half-open breaker has had fewer than success_threshold successes
\* recorded since it became half-open; a success recorded in half-open that is
\* the success_threshold-th closes the breaker with failure_count and
\* success_count zero and the recovery timeout at its configured base, an
\* earlier one leaves it half-open; apart from reset() nothing else closes it;
\* and a failure recorded in half-open returns it to open with success_count
\* zero.
C18_HalfOpenProbes ==
    [][inner.state = HalfOpen =>
          /\ recorded.successes < config.success_threshold
          /\ inner.success_count = recorded.successes
          /\ SuccessRecorded =>
                IF recorded.successes + 1 >= config.success_threshold
                THEN /\ inner'.state = Closed
                     /\ inner'.failure_count = 0 /\ inner'.success_count = 0
                     /\ inner'.current_recovery_timeout = config.recovery_timeout
                ELSE /\ inner'.state = HalfOpen
                     /\ inner'.success_count = recorded.successes + 1
          /\ inner'.state = Closed =>
                \/ SuccessRecorded /\ recorded.successes + 1 = config.success_threshold
                \/ Reset
          /\ FailureRecorded =>
                inner'.state = Open /\ inner'.success_count = 0]_vars

\* a breaker that opened on its first failure went through half-open and two
\* probe successes and is closed again, counters at zero and timeout at base
C18_Witness ==
    /\ config.failure_threshold = 1 /\ config.success_threshold = 2
    /\ inner.state = Closed /\ inner.last_failure_time # NULL
    /\ inner.failure_count = 0 /\ inner.success_count = 0
    /\ inner.current_recovery_timeout = config.recovery_timeout

\* C19: when the configured recovery_timeout is at most max_recovery_timeout,
\* the effective recovery timeout is at most max_recovery_timeout in every
\* reachable state of the breaker.
C19_TimeoutCapped ==
    config.recovery_timeout <= config.max_recovery_timeout =>
        inner.current_recovery_timeout <= config.max_recovery_timeout

\* a rate-limit failure took the timeout from a base of 2 to the cap, where
\* doubling would have exceeded it
C19_Witness ==
    /\ config.recovery_timeout = 2
    /\ 2 * config.recovery_timeout > config.max_recovery_timeout
    /\ inner.state = Open
    /\ inner.current_recovery_timeout = config.max_recovery_timeout

\* C20 as stated: every rate-limit failure recorded in closed or half-open
\* multiplies the effective recovery timeout by the multiplier, up to the cap
C20_RateLimitBackoff ==
    [][inner.state \in {Closed, HalfOpen} =>
          \A e \in TrippingErrors :
             /\ is_rate_limit(e)
             /\ RecordFailure(e) \/ \E c \in Callers : call_operation(c, e)
             => inner'.current_recovery_timeout =
                   Min(inner.current_recovery_timeout * RateLimitBackoffMultiplier,
                       config.max_recovery_timeout)]_vars

\* what recording one failure with message msg does to the breaker
OneFailureRecorded(msg) ==
    /\ inner'.last_error_message = msg
    /\ inner.state = Closed =>
          /\ inner'.failure_count = inner.failure_count + 1
          /\ inner'.last_failure_time = instant
          /\ inner'.success_count = inner.success_count
    /\ inner.state = HalfOpen =>
          /\ inner'.state = Open /\ inner'.last_failure_time = instant
          /\ inner'.failure_count = inner.failure_count
    /\ inner.state = Open =>
          inner' = [inner EXCEPT !.last_error_message = msg]

\* what recording one success does to the breaker
OneSuccessRecorded ==
    /\ inner.state = Closed => inner' = [inner EXCEPT !.failure_count = 0]
    /\ inner.state = HalfOpen =>
          \/ inner'.state = HalfOpen
             /\ inner' = [inner EXCEPT !.success_count = inner.success_count + 1]
          \/ inner'.state = Closed
             /\ inner.success_count + 1 >= config.success_threshold
    /\ inner.state = Open => inner' = inner

\* C21: when the operation of a call returns: a non-tripping error leaves the
\* breaker exactly as it is and the call returns Inner(e); a tripping error is
\* recorded as one failure and the call returns Inner(e); Ok is recorded as one
\* success and the call returns Ok.
C21_CallRecordsResult ==
    [][\A c \in Callers, r \in OperationResults :
          call_operation(c, r) =>
             /\ r \in {SchemaValidationError, LlmError(400, FALSE)} =>
                   inner' = inner /\ call_ret' = ReturnInner(r)
             /\ r \in {RateLimitExceeded, NetworkError, LlmError(429, FALSE)} =>
                   OneFailureRecorded(to_string(r)) /\ call_ret' = ReturnInner(r)
             /\ r = OkResult => OneSuccessRecorded /\ call_ret' = ReturnOk]_vars

\* a call returned a schema validation error as Inner(e) and the one failure
\* the closed breaker had counted before is still all it has counted
C21_Witness ==
    /\ call_ret = ReturnInner(SchemaValidationError)
    /\ inner.state = Closed /\ inner.failure_count = 1
    /\ inner.last_error_message = "Network error"

\* an inspection of the breaker: state() or stats(), or the admission check
\* of a call
Inspected ==
    Inspect \/ \E c \in Callers : call_check(c)

\* C30 as stated: an open breaker becomes half-open only when it is inspected
\* at least the current recovery timeout after the last recorded failure
C30_HalfOpenAfterLastFailure ==
    [][inner.state = Open /\ inner'.state = HalfOpen =>
          /\ Inspected
          /\ recorded.last_failure # NULL
          /\ instant - recorded.last_failure >= inner.current_recovery_timeout]_vars

\* C30: an open breaker becomes half-open only when state(), stats() or call()
\* is invoked at least the current recovery timeout after the failure that
\* opened it, a failure recorded while it is open leaving that time as it is,
\* and on that transition the probe success counter is zero; before that time
\* every inspection reports open, and nothing but such an inspection or
\* reset() takes the breaker out of open.
C30_HalfOpenAfterDwell ==
    [][inner.state = Open =>
          /\ inner'.state = HalfOpen =>
                /\ Inspected
                /\ inner.last_failure_time # NULL
                /\ instant - inner.last_failure_time >= inner.current_recovery_timeout
                /\ inner'.success_count = 0
          /\ FailureRecorded =>
                /\ inner'.state = Open
                /\ inner'.last_failure_time = inner.last_failure_time
          /\ StillOpen /\ Inspected => inner'.state = Open
          /\ inner'.state = Closed => Reset]_vars

\* a breaker with a dwell of 2 is half-open although a failure was recorded,
\* while it was open, less than 2 time units ago
C30_Witness ==
    /\ inner.state = HalfOpen /\ inner.success_count = 0
    /\ inner.current_recovery_timeout = 2
    /\ recorded.last_failure # NULL
    /\ recorded.last_failure > inner.last_failure_time
    /\ instant - recorded.last_failure < 2
    /\ instant - inner.last_failure_time >= 2

\* C25 as stated: a successful scrape with a store attached reports changed =
\* false exactly when its data_hash equals the data_hash of the most recent
\* extraction stored for its key at the time its own row is stored, the first
\* row for a key being reported changed, also when runs for one key interleave
C25_ChangedIffDiffersFromLatest ==
    [][\A s \in Scrapers :
          scrape_save(s, TRUE) =>
             LET latest == store_get_latest(extractions, scrape[s].key)
             IN scrape'[s].result.changed =
                   (latest = NULL \/ latest # scrape[s].data_hash)]_vars

C29_SameDomainSpaced ==
    \A i, j \in DOMAIN reached :
       i < j /\ reached[i].domain = reached[j].domain =>
          reached[j].at - reached[i].at >= throttle_config.delay

\* the breaker rejects the call process_job is about to make
Rejecting ==
    run_pc = "call" /\ maybe_transition_to_half_open(inner).state = Open

\* C22: when process_job is rejected by the open breaker, the scrape operation
\* (fetcher, cleaner, extractor, store) is not invoked; and if the job has
\* retries left and fail_job goes through, JobFailed is reported with
\* will_retry, and the job is pending again, unowned, with one more retry
\* counted and a next_retry_at later than now.
C22_RejectionRetried ==
    [][Rejecting =>
          /\ scrapes' = scrapes /\ extractions' = extractions
          /\ \A r \in OperationResults, d \in Data : ~process_scrape(r, d)
          /\ can_retry(current) /\ process_rejected(TRUE) =>
                /\ events' = Append(events, JobFailed(current.id, TRUE))
                /\ jobs'[current.id].status = Pending
                /\ jobs'[current.id].worker_id = NULL
                /\ jobs'[current.id].retry_count = jobs[current.id].retry_count + 1
                /\ jobs'[current.id].next_retry_at > now]_vars

\* the breaker is open and a job it rejected is pending for a retry after now,
\* its failure reported as one that will be retried
C22_Witness ==
    /\ inner.state = Open
    /\ \E id \in JobIds :
          /\ jobs[id].status = Pending /\ jobs[id].error_message = "circuit open"
          /\ jobs[id].next_retry_at > now
          /\ events # <<>> /\ events[Len(events)] = JobFailed(id, TRUE)

\* C23 as stated: once the token is cancelled the worker issues no claim_job
\* call, wherever in the loop it was when the token was cancelled
C23_NoClaimAfterCancel ==
    [][cancelled => \A db_ok \in BOOLEAN : ~run_claim(db_ok)]_vars

\* C24 as stated: when run has returned, release_worker_jobs has been called
\* exactly once with this worker's id and no job is left running with this
\* worker's id, also after queue errors in complete_job or fail_job
C24_ReturnedHoldsNothing ==
    run_pc = "returned" => release_calls = 1 /\ RunningUnder(run_id) = {}

\* the worker process with this id has died
Crashed(w) == w < run_id \/ (w = run_id /\ run_pc = "crashed")

Follows(a, b) ==
    CASE a.kind = "Started" -> b.kind \in {"Polling", "ShuttingDown"}
      [] a.kind = "Polling" -> b.kind \in {"Polling", "JobClaimed", "ShuttingDown"}
      [] a.kind = "JobClaimed" -> b.kind = "JobStarted" /\ b.job_id = a.job_id
      [] a.kind = "JobStarted" ->
            b.kind \in {"JobCompleted", "JobFailed"} /\ b.job_id = a.job_id
      [] a.kind \in {"JobCompleted", "JobFailed"} ->
            b.kind \in {"Polling", "ShuttingDown"}
      [] a.kind = "ShuttingDown" -> b.kind = "Stopped"
      [] OTHER -> FALSE

\* C28: the report of a run starts with Started; each Polling is followed, when
\* a job is claimed, by JobClaimed, JobStarted and one of JobCompleted or
\* JobFailed for that job before the next Polling; ShuttingDown comes after
\* the loop and is followed by Stopped, which is the last event; a run that
\* has returned has reported Stopped.
C28_EventOrder ==
    /\ events # <<>> => events[1] = Started
    /\ \A i \in 1..(Len(events) - 1) : Follows(events[i], events[i + 1])
    /\ run_pc = "returned" => events[Len(events)] = Stopped

\* one job was claimed and succeeded, then the worker was stopped
C28_Witness ==
    events = <<Started, Polling, JobClaimed(1), JobStarted(1), JobCompleted(1, 1),
               ShuttingDown(0), Stopped>>

\* C39: in every reachable state of a breaker whose thresholds are at least
\* 1, with callers interleaving: closed implies failure_count below
\* failure_threshold; half-open implies success_count below success_threshold;
\* success_count is non-zero only in half-open; open implies a last failure
\* time is recorded.
C39_CountersWithinThresholds ==
    /\ config.failure_threshold >= 1 /\ config.success_threshold >= 1
    /\ inner.state = Closed => inner.failure_count < config.failure_threshold
    /\ inner.state = HalfOpen => inner.success_count < config.success_threshold
    /\ inner.success_count # 0 => inner.state = HalfOpen
    /\ inner.state = Open => inner.last_failure_time # NULL

\* a breaker with both thresholds 2 is open with its two failures counted and
\* no success counted, opened after the clock started, while a call admitted
\* earlier is still running
C39_Witness ==
    /\ inner.state = Open /\ inner.success_count = 0
    /\ config.success_threshold = 2 /\ config.failure_threshold = 2
    /\ inner.failure_count = 2
    /\ inner.last_failure_time > 0
    /\ \E c \in Callers : call_pc[c] = "admitted"

\* C40: a result recorded while the breaker is open, directly or by a call
\* admitted before it opened, does not change the breaker: a success changes
\* nothing, a failure replaces the last error message and nothing else (state,
\* failure_count, success_count, last failure time and recovery timeout stay).
C40_OpenIgnoresResults ==
    [][inner.state = Open =>
          /\ RecordSuccess \/ (\E c \in Callers : call_operation(c, OkResult))
                => inner' = inner
          /\ \A e \in {RateLimitExceeded, NetworkError, LlmError(429, FALSE)} :
                RecordFailure(e) \/ (\E c \in Callers : call_operation(c, e))
                => /\ inner'.last_error_message = to_string(e)
                   /\ inner'.state = Open
                   /\ inner'.failure_count = inner.failure_count
                   /\ inner'.success_count = inner.success_count
                   /\ inner'.last_failure_time = inner.last_failure_time
                   /\ inner'.current_recovery_timeout = inner.current_recovery_timeout]_vars

\* the open breaker shows a rate-limit failure as its last error and still
\* has its base recovery timeout and the failure time of the network error
\* that opened it: the rate-limit failure came from a call admitted before
\* the breaker opened, which has returned
C40_Witness ==
    /\ inner.state = Open
    /\ inner.last_error_message = "Rate limit exceeded"
    /\ inner.current_recovery_timeout = config.recovery_timeout
    /\ inner.failure_count = config.failure_threshold
    /\ inner.last_failure_time = 0 /\ instant = 1
    /\ call_ret = ReturnInner(RateLimitExceeded)

\* C31: when process_job ends with an error (of the pipeline, or the breaker's
\* rejection, which counts as retryable), it reports JobFailed with will_retry
\* and calls fail_job with next_retry_at = now + delay(retry_count + 1) if and
\* only if the claimed job has retry_count < max_retries and the error is
\* retryable; otherwise it reports will_retry = false and calls fail_job
\* without next_retry_at, and the job is failed for good, also with retries
\* left.
C31_RetryIffRetryableAndLeft ==
    [][\A db_ok \in BOOLEAN :
          \/ process_finish(db_ok) /\ scraped.kind = "Err"
          \/ process_rejected(db_ok)
          => LET retryable == Rejecting \/ scraped.error = NetworkError
                 retry == current.retry_count < current.max_retries /\ retryable
                 at == IF retry THEN now + delay_for_attempt(current.retry_count + 1)
                       ELSE NULL
             IN /\ events' = Append(events, JobFailed(current.id, retry))
                /\ finish_calls' = Append(finish_calls, FailJob(current.id, at))
                /\ db_ok =>
                      /\ jobs'[current.id].status = IF retry THEN Pending ELSE Failed
                      /\ jobs'[current.id].next_retry_at = at
                      /\ jobs'[current.id].retry_count =
                            jobs[current.id].retry_count + (IF retry THEN 1 ELSE 0)]_vars

\* the first job failed for good on a schema validation error with its one
\* retry unused, the second is pending for a retry after a network error
C31_Witness ==
    /\ Len(jobs) = 2
    /\ jobs[1].status = Failed /\ jobs[1].retry_count = 0 /\ jobs[1].max_retries = 1
    /\ jobs[1].error_message = "Schema validation error"
    /\ jobs[2].status = Pending /\ jobs[2].retry_count = 1
    /\ jobs[2].next_retry_at = now + 1
    /\ finish_calls = <<FailJob(1, NULL), FailJob(2, now + 1)>>

\* C32: when the extractor factory fails for a claimed job, whatever the error
\* and the retries left, process_job reports JobFailed with will_retry = false
\* right after JobStarted, calls fail_job without next_retry_at and returns;
\* the breaker is neither consulted nor updated and the pipeline and the store
\* are not invoked.
C32_FactoryFailureIsFinal ==
    [][\A f \in {NetworkError, SchemaValidationError}, db_ok \in BOOLEAN :
          process_start(f, db_ok) =>
             /\ events' = events \o <<JobStarted(current.id), JobFailed(current.id, FALSE)>>
             /\ finish_calls' = Append(finish_calls, FailJob(current.id, NULL))
             /\ inner' = inner /\ recorded' = recorded
             /\ scrapes' = scrapes /\ extractions' = extractions
             /\ run_pc' = "loop"
             /\ db_ok =>
                   /\ jobs'[current.id].status = Failed
                   /\ jobs'[current.id].next_retry_at = NULL
                   /\ jobs'[current.id].retry_count = jobs[current.id].retry_count]_vars

\* a job with its one retry unused is failed for good with the factory's
\* network error, reported as not retried, with no scrape run and the breaker
\* as new
C32_Witness ==
    /\ scrapes = 0 /\ inner = CircuitBreakerInner_new(config)
    /\ jobs # <<>>
    /\ jobs[1].status = Failed /\ jobs[1].retry_count = 0 /\ jobs[1].max_retries = 1
    /\ jobs[1].error_message = "Network error"
    /\ events = <<Started, Polling, JobClaimed(1), JobStarted(1), JobFailed(1, FALSE)>>
    /\ finish_calls = <<FailJob(1, NULL)>>

\* the JobClaimed events of the run, in order: one per job claim_job returned
Claims(log) == SelectSeq(log, LAMBDA e : e.kind = "JobClaimed")

\* C33: for every job the worker claims it issues exactly one complete_job or
\* fail_job call for that job, after the claim and before its next claim_job
\* and before the release_worker_jobs of its shutdown: the calls issued so
\* far are, job by job and in order, those of the jobs claimed, less the job
\* in process; a job in process stays in process until its call is issued,
\* also when the token is cancelled meanwhile, and only then does the worker
\* poll, sleep or leave the loop.
C33_OneFinishPerClaim ==
    [][/\ run_pc' # "crashed" =>
             /\ Len(finish_calls') = Len(Claims(events')) - (IF InProcess' THEN 1 ELSE 0)
             /\ \A k \in DOMAIN finish_calls' :
                   /\ finish_calls'[k].job_id = Claims(events')[k].job_id
                   /\ finish_calls'[k].op \in {"complete_job", "fail_job"}
       /\ (\E db_ok \in BOOLEAN : run_claim(db_ok) \/ run_release(db_ok)) =>
             /\ ~InProcess
             /\ Len(finish_calls) = Len(Claims(events))
       /\ InProcess /\ run_pc' # run_pc /\ run_pc' # "crashed" =>
             \/ InProcess' /\ finish_calls' = finish_calls /\ current' = current
             \/ /\ run_pc' = "loop"
                /\ \E call \in {CompleteJob(current.id, scraped.extraction_id)}
                        \cup {FailJob(current.id, t) : t \in {NULL} \cup 0..(now + MaxDelayMinutes)} :
                      finish_calls' = Append(finish_calls, call)]_vars

\* the token was cancelled while process_job was working on job 1; the job
\* was completed all the same, by the one call issued for it, and the run
\* then returned
C33_Witness ==
    /\ cancelled /\ cancelled_during = 1
    /\ run_pc = "returned"
    /\ finish_calls = <<CompleteJob(1, 1)>>
    /\ jobs[1].status = Completed
    /\ events = <<Started, Polling, JobClaimed(1), JobStarted(1), JobCompleted(1, 1),
                  ShuttingDown(0), Stopped>>

\* C38: a job the open breaker rejects is charged an attempt like a job whose
\* pipeline failed: when fail_job goes through, a rejected job with retries
\* left has its retry_count incremented by 1 and is pending again, and a job
\* rejected with retry_count equal to max_retries is failed for good, the
\* pipeline not having been invoked on that attempt.
C38_RejectionCharged ==
    [][process_rejected(TRUE) =>
          LET row == jobs[current.id]
              after == jobs'[current.id]
          IN /\ scrapes' = scrapes /\ extractions' = extractions
             /\ row.retry_count < row.max_retries =>
                   /\ after.retry_count = row.retry_count + 1
                   /\ after.status = Pending
             /\ row.retry_count = row.max_retries =>
                   /\ after.retry_count = row.retry_count
                   /\ after.status = Failed
                   /\ after.next_retry_at = NULL]_vars

\* a job used its one retry on a rejection: its only scrape failed on a
\* network error, which opened the breaker, and the second attempt was
\* rejected and failed it for good with retry_count = max_retries = 1
C38_Witness ==
    /\ scrapes = 1 /\ inner.state = Open
    /\ Len(jobs) = 1
    /\ jobs[1].status = Failed /\ jobs[1].retry_count = 1 /\ jobs[1].max_retries = 1
    /\ jobs[1].error_message = "circuit open"
    /\ finish_calls = <<FailJob(1, 1), FailJob(1, NULL)>>

\* C34: once the token is cancelled, run reports ShuttingDown and Stopped and
\* returns, the pipeline and queue calls in flight returning with whatever
\* result and the poll timer never firing if it so happens: a worker in its
\* poll sleep, after an empty poll or after a claim error, leaves the sleep
\* for the shutdown as soon as the token is cancelled; and the loop is left
\* only with the token cancelled, a claim error sending the worker to sleep.
C34_CancelEndsRun ==
    /\ cancelled ~>
          (/\ run_pc = "returned"
           /\ Len(events) >= 2
           /\ events[Len(events) - 1].kind = "ShuttingDown"
           /\ events[Len(events)] = Stopped)
    /\ [][/\ run_claim(FALSE) => run_pc' = "sleep"
          /\ run_pc # "break" /\ run_pc' = "break" => cancelled
          /\ run_pc = "sleep" /\ cancelled /\ run_pc' # run_pc =>
                run_pc' \in {"break", "loop"}]_vars

\* the only poll of the run claimed nothing although a job is waiting (the
\* claim failed or came before the job) and the worker, asleep after it, was
\* stopped by the cancellation without polling again
C34_Witness ==
    /\ cancelled /\ run_pc = "returned"
    /\ events = <<Started, Polling, ShuttingDown(0), Stopped>>
    /\ jobs # <<>> /\ jobs[1].status = Pending /\ jobs[1].next_retry_at = NULL

\* the delay the schedule names for an attempt number, in minutes
C35_Scheduled(n) ==
    CASE n = 1 -> 1
      [] n = 2 -> 5
      [] n = 3 -> 30
      [] n >= 4 -> 60

\* C35: delay_for_attempt(n) is 1, 5 and 30 minutes for n = 1, 2, 3 and 60
\* minutes for every n >= 4, each capped at the configured max_delay, whatever
\* the time of the call; and the retry time calculated for a job is the time
\* of the call plus delay_for_attempt(retry_count + 1).
C35_DelaySchedule ==
    /\ retry_ret.op = "delay_for_attempt" /\ retry_ret.arg >= 1 =>
          retry_ret.ret = Min(C35_Scheduled(retry_ret.arg), retry_config.max_delay)
    /\ retry_ret.op = "calculate_next_retry" =>
          retry_ret.ret = retry_ret.at
             + Min(C35_Scheduled(retry_ret.arg + 1), retry_config.max_delay)

\* with max_delay 45 minutes, a job that has been retried three times is
\* given a retry time 45 minutes after the call, made at minute 1
C35_Witness ==
    /\ retry_config.max_delay = 45
    /\ retry_ret = [op |-> "calculate_next_retry", arg |-> 3, at |-> 1, ret |-> 46]

\* C36 as stated: is_retryable and should_trip_circuit classify every error
\* kind as the taxonomy says: Network, Timeout and RateLimit retryable and
\* tripping; Llm retryable exactly with its flag set and tripping exactly with
\* status 429, status >= 500 or the flag; Http retryable exactly when its
\* message mentions timeout, connect or reset and tripping for exactly the
\* same messages; every other kind neither
C36_ClassifiedAsTable ==
    LET e == app_error
        mentions == /\ e.kind = "HttpError"
                    /\ \/ contains(e.message, text_timeout)
                       \/ contains(e.message, text_connect)
                       \/ contains(e.message, text_reset)
        retryable == CASE e.kind \in {"NetworkError", "Timeout", "RateLimitExceeded"} -> TRUE
                       [] e.kind = "LlmError" -> e.retryable
                       [] e.kind = "HttpError" -> mentions
                       [] OTHER -> FALSE
        tripping == CASE e.kind \in {"NetworkError", "Timeout", "RateLimitExceeded"} -> TRUE
                      [] e.kind = "LlmError" ->
                            e.status_code = 429 \/ e.status_code >= 500 \/ e.retryable
                      [] e.kind = "HttpError" -> mentions
                      [] OTHER -> FALSE
    IN /\ classified.is_retryable \in {<<>>, <<retryable>>}
       /\ classified.should_trip_circuit \in {<<>>, <<tripping>>}

\* C37: with a worker that keeps running, no worker dying, no queue call
\* failing and finitely many jobs created, every job reaches a terminal
\* status (completed, failed or cancelled): time and again every job in the
\* table is in a terminal status; a worker's failure handling returns a job
\* to pending only if the job it claimed had retries left, and then the row's
\* retry_count goes up by one.
C37_EveryJobEnds ==
    /\ []<>(\A id \in JobIds : is_terminal(jobs[id].status))
    /\ [][\A w \in Workers :
             WorkerWrites(w) /\ jobs'[job[w].id].status = Pending =>
                /\ job[w].retry_count < job[w].max_retries
                /\ jobs'[job[w].id].retry_count = jobs[job[w].id].retry_count + 1]_vars

\* a job has failed for good after using its one retry, and the other job
\* has been completed
C37_Witness ==
    /\ Len(jobs) = 2
    /\ jobs[1].status = Failed /\ jobs[1].retry_count = 1 /\ jobs[1].max_retries = 1
    /\ jobs[2].status = Completed
    /\ \A w \in Workers : job[w] = NoJob

====
